---- MODULE Spec2Model ----
(***************************************************************************)
(* Prompt Store (src/src/storage.py, src/src/models.py): one JSON file     *)
(* prompts.json with rotating backups prompts.json.bak1 .. .bak5, written  *)
(* through a temp file and os.replace, validated on load and restored from *)
(* the newest valid backup.                                                *)
(*                                                                         *)
(* A file is modelled by what json.load makes of its text: a tagged JSON   *)
(* value, or Garbage (text that does not parse), or Missing (no file).     *)
(* json.dump followed by json.load is the identity on the JSON values used *)
(* here (strings, booleans, integers, null, lists, string-keyed objects).  *)
(***************************************************************************)
EXTENDS Integers, Sequences, FiniteSets, TLC

VARIABLES
    prompts_file,          \* content of <data_dir>/prompts.json
    backups,               \* backups[i]: content of prompts.json.bak<i>
    tmp_file,              \* the temp file of the _write_json_atomic call in progress
    restored_from_backup,  \* Storage._restored_from_backup
    pc,                    \* position of the process: "idle", a step of a save, "dead"
    call,                  \* the _write_json_atomic call in progress: data, flags, caller
    ret,                   \* what the last finished operation returned (or that it raised), whether it
                           \* met an I/O error, whether it left its temp file in the directory
    opened,                \* ghost: what the constructor found, until the first operation after it
    prior,                 \* ghost: primary contents before each of the latest consecutive successful saves, newest first
    pending_restore,       \* ghost: a restore wrote the primary file and no consume has reported it yet
    past,                  \* ghost: the records update replaced, newest first
    clock,                 \* source of datetime.now() and uuid4() values
    left,                  \* what the run may still do: left.saves save_all calls,
                           \* left.corrupt outside modifications
    born,                  \* ghost: for prompts.json, each backup slot and the temp file, when the
                           \* file was written (a stamp, lower is later); kept by the step-wise
                           \* save and by load_all
    procs                  \* two store instances on one directory: for each its position in
                           \* its call, the call, and what its load_prompts returned

vars == <<prompts_file, backups, tmp_file, restored_from_backup, pc, call,
          ret, opened, prior, pending_restore, past, clock, left, born, procs>>

-----------------------------------------------------------------------------
(* Program constants *)

BACKUP_COUNT == 5

HISTORY_LIMIT == 10

(* Bounds of the model *)

MaxSaves == 2

MaxCorrupt == 1

MaxRotationSaves == 6

MaxRoundTrips == 1

MaxUpdates == 12

MaxOps == 3

-----------------------------------------------------------------------------
(* JSON values, tagged by type; each type keeps its payload in its own field *)

JStr(s) == [t |-> "str", s |-> s]
JBool(b) == [t |-> "bool", b |-> b]
JInt(n) == [t |-> "int", n |-> n]
JNull == [t |-> "null"]
JList(l) == [t |-> "list", l |-> l]
JObj(o) == [t |-> "obj", o |-> o]

Missing == [t |-> "missing"]
Garbage == [t |-> "garbage"]

Exists(f) == f.t # "missing"

Has(o, k) == k \in DOMAIN o

MaxOf(a, b) == IF a >= b THEN a ELSE b

MapSeq(s, F(_)) == [i \in 1..Len(s) |-> F(s[i])]

Take(s, n) == SubSeq(s, 1, IF Len(s) < n THEN Len(s) ELSE n)

-----------------------------------------------------------------------------
(* models.py *)

Categories == {"Persona", "System Prompt", "Template", "Other"}

StrOf(v) == v.s

\* Python truthiness of a JSON value (`x or y`)
Truthy(v) ==
    CASE v.t = "str" -> v.s # ""
      [] v.t = "bool" -> v.b
      [] v.t = "int" -> v.n # 0
      [] v.t = "null" -> FALSE
      [] v.t = "list" -> Len(v.l) > 0
      [] v.t = "obj" -> DOMAIN v.o # {}

\* Python str() of a JSON value; lists and objects are rendered by their brackets only
PyStr(v) ==
    CASE v.t = "str" -> v.s
      [] v.t = "bool" -> IF v.b THEN "True" ELSE "False"
      [] v.t = "int" -> ToString(v.n)
      [] v.t = "null" -> "None"
      [] v.t = "list" -> "[..]"
      [] v.t = "obj" -> "{..}"

\* dict.get(k) with no default: None when the key is absent
Get(o, k) == IF Has(o, k) THEN o[k] ELSE JNull

\* int() of a string: the decimal numerals of small integers parse, other strings raise
NumeralRange == -3..3

ParsesAsInt(s) == \E n \in NumeralRange : ToString(n) = s

IntOfStr(s) == CHOOSE n \in NumeralRange : ToString(n) = s

\* variant: an integer is taken as it is
coerce_version_number_unchecked(v) ==
    CASE v.t = "int" -> v.n
      [] OTHER -> 1

\* variant: every stored version number reads as 1
coerce_version_number_always_one(v) == 1

\* Prompt._coerce_version_number
coerce_version_number(v) ==
    CASE v.t = "int" -> IF v.n > 0 THEN v.n ELSE 1
      [] v.t = "bool" -> 1
      [] v.t = "str" -> IF ParsesAsInt(v.s) /\ IntOfStr(v.s) > 0 THEN IntOfStr(v.s) ELSE 1
      [] OTHER -> 1

\* max(1, int(self.version_number or 1)) of Prompt.to_dict, for whatever value the
\* record carries in memory: the exception raised by int(), or "" and the number
dump_version_number(v) ==
    CASE v.t = "int" -> [exc |-> "", n |-> MaxOf(1, IF v.n # 0 THEN v.n ELSE 1)]
      [] v.t = "bool" -> [exc |-> "", n |-> 1]
      [] v.t = "null" -> [exc |-> "", n |-> 1]
      [] v.t = "str" -> IF v.s = "" THEN [exc |-> "", n |-> 1]
                        ELSE IF ParsesAsInt(v.s) THEN [exc |-> "", n |-> MaxOf(1, IntOfStr(v.s))]
                        ELSE [exc |-> "ValueError", n |-> 0]
      [] v.t = "list" -> IF Len(v.l) = 0 THEN [exc |-> "", n |-> 1]
                         ELSE [exc |-> "TypeError", n |-> 0]
      [] v.t = "obj" -> IF DOMAIN v.o = {} THEN [exc |-> "", n |-> 1]
                        ELSE [exc |-> "TypeError", n |-> 0]

\* Prompt.to_dict
to_dict(p) ==
    JObj([id |-> JStr(p.id),
          name |-> JStr(p.name),
          content |-> JStr(p.content),
          category |-> JStr(p.category),
          tags |-> JList(MapSeq(p.tags, JStr)),
          sensitive |-> JBool(p.sensitive),
          pinned |-> JBool(p.pinned),
          history |-> JList(p.history),
          custom_category |-> JStr(p.custom_category),
          version_group_id |-> JStr(IF p.version_group_id # "" THEN p.version_group_id ELSE p.id),
          version_number |-> JInt(dump_version_number(JInt(p.version_number)).n),
          previous_version_id |-> p.previous_version_id,
          created_at |-> JStr(p.created_at),
          updated_at |-> JStr(p.updated_at)])

\* Prompt.from_dict on a validated item; e holds the values the environment supplies:
\* e.uuid1, e.uuid2 for the two str(uuid.uuid4()) calls, e.now1, e.now2 for the two
\* datetime.now().isoformat() calls
from_dict(d, e) ==
    LET o == d.o IN
    [id |-> IF Has(o, "id") THEN o["id"].s ELSE e.uuid1,
     name |-> o["name"].s,
     content |-> o["content"].s,
     category |-> IF Has(o, "category") THEN o["category"].s ELSE "Other",
     tags |-> IF Has(o, "tags") THEN MapSeq(o["tags"].l, StrOf) ELSE <<>>,
     sensitive |-> IF Has(o, "sensitive") THEN o["sensitive"].b ELSE FALSE,
     pinned |-> IF Has(o, "pinned") THEN o["pinned"].b ELSE FALSE,
     history |-> IF Has(o, "history") THEN o["history"].l ELSE <<>>,
     custom_category |-> IF Has(o, "custom_category") /\ Truthy(o["custom_category"])
                         THEN PyStr(o["custom_category"]) ELSE "",
     version_group_id |-> IF Truthy(Get(o, "version_group_id")) THEN PyStr(o["version_group_id"])
                          ELSE IF Truthy(Get(o, "id")) THEN PyStr(o["id"])
                          ELSE e.uuid2,
     version_number |-> IF Has(o, "version_number") THEN coerce_version_number(o["version_number"]) ELSE 1,
     previous_version_id |-> IF Get(o, "previous_version_id").t = "str" THEN o["previous_version_id"] ELSE JNull,
     created_at |-> IF Has(o, "created_at") THEN o["created_at"].s ELSE e.now1,
     updated_at |-> IF Has(o, "updated_at") THEN o["updated_at"].s ELSE e.now2]

-----------------------------------------------------------------------------
(* storage.py: schema validation *)

ItemNo(index) == "Item " \o ToString(index)

\* Storage._validate_prompt_item: "" when the item passes, else the ValueError message
validate_prompt_item(item, index) ==
    IF item.t # "obj" THEN ItemNo(index) \o " is not an object."
    ELSE LET o == item.o IN
    IF ~Has(o, "name") \/ o["name"].t # "str"
        THEN ItemNo(index) \o " is missing a 'name' string."
    ELSE IF ~Has(o, "content") \/ o["content"].t # "str"
        THEN ItemNo(index) \o " is missing a 'content' string."
    ELSE IF Has(o, "category") /\ (o["category"].t # "str" \/ o["category"].s \notin Categories)
        THEN ItemNo(index) \o " has invalid 'category'. Expected one of: Other, Persona, System Prompt, Template."
    ELSE IF Has(o, "tags") /\ (o["tags"].t # "list"
                               \/ \E i \in 1..Len(o["tags"].l) : o["tags"].l[i].t # "str")
        THEN ItemNo(index) \o " has invalid 'tags' list (strings only)."
    ELSE IF Has(o, "sensitive") /\ o["sensitive"].t # "bool"
        THEN ItemNo(index) \o " has invalid 'sensitive' (boolean expected)."
    ELSE IF Has(o, "pinned") /\ o["pinned"].t # "bool"
        THEN ItemNo(index) \o " has invalid 'pinned' (boolean expected)."
    ELSE IF Has(o, "history") /\ o["history"].t # "list"
        THEN ItemNo(index) \o " has invalid 'history' (list expected)."
    ELSE IF Has(o, "history") /\ \E h \in 1..Len(o["history"].l) : o["history"].l[h].t # "obj"
        THEN LET h == CHOOSE h \in 1..Len(o["history"].l) :
                          /\ o["history"].l[h].t # "obj"
                          /\ \A g \in 1..(h - 1) : o["history"].l[g].t = "obj"
             IN ItemNo(index) \o " has invalid 'history' entry " \o ToString(h) \o " (object expected)."
    ELSE IF Has(o, "id") /\ o["id"].t # "str"
        THEN ItemNo(index) \o " has invalid 'id' (string expected)."
    ELSE IF Has(o, "created_at") /\ o["created_at"].t # "str"
        THEN ItemNo(index) \o " has invalid 'created_at' (string expected)."
    ELSE IF Has(o, "updated_at") /\ o["updated_at"].t # "str"
        THEN ItemNo(index) \o " has invalid 'updated_at' (string expected)."
    ELSE ""

\* variant: the items are numbered from 0
validate_prompt_list_zero_based(data) ==
    IF data.t # "list" THEN "Top-level JSON must be a list of prompt objects."
    ELSE IF \A i \in 1..Len(data.l) : validate_prompt_item(data.l[i], i - 1) = "" THEN ""
    ELSE LET i == CHOOSE i \in 1..Len(data.l) :
                      /\ validate_prompt_item(data.l[i], i - 1) # ""
                      /\ \A j \in 1..(i - 1) : validate_prompt_item(data.l[j], j - 1) = ""
         IN validate_prompt_item(data.l[i], i - 1)

\* Storage._validate_prompt_list: "" when the value passes, else the message of the
\* first ValueError raised
validate_prompt_list(data) ==
    IF data.t # "list" THEN "Top-level JSON must be a list of prompt objects."
    ELSE IF \A i \in 1..Len(data.l) : validate_prompt_item(data.l[i], i) = "" THEN ""
    ELSE LET i == CHOOSE i \in 1..Len(data.l) :
                      /\ validate_prompt_item(data.l[i], i) # ""
                      /\ \A j \in 1..(i - 1) : validate_prompt_item(data.l[j], j) = ""
         IN validate_prompt_item(data.l[i], i)

\* Storage._read_json followed by _validate_prompt_list, as the try blocks of
\* _load_raw and _restore_from_backup run them: "ok" with the data, or the exception
\* raised (FileNotFoundError, OSError when the read itself fails, JSONDecodeError,
\* ValueError)
read_and_validate(f, io_error) ==
    IF ~Exists(f) THEN [exc |-> "FileNotFoundError", data |-> JNull]
    ELSE IF io_error THEN [exc |-> "OSError", data |-> JNull]
    ELSE IF f.t = "garbage" THEN [exc |-> "JSONDecodeError", data |-> JNull]
    ELSE IF validate_prompt_list(f) # "" THEN [exc |-> "ValueError", data |-> JNull]
    ELSE [exc |-> "ok", data |-> f]

-----------------------------------------------------------------------------
(* storage.py: _rotate_backups and _write_json_atomic, one system call per step.

   A call is a record w:
     pc      "open", "dump", "rotate", "rotate_primary", "replace", "except",
             "finally", "done"
     i       the loop index of _rotate_backups while pc = "rotate"
     data    the JSON value to write;  rotate: the rotate_backups argument
     raised  the call ends by raising
     primary, bak, tmp   the files: path (always prompts.json), the backup slots,
             the temp file of this call *)

NewWrite(primary, bak, data, rotate) ==
    [pc |-> "open", i |-> 0, data |-> data, rotate |-> rotate, raised |-> FALSE,
     primary |-> primary, bak |-> bak, tmp |-> Missing]

\* does the step at w make a system call that can fail with OSError?
Syscall(w) ==
    CASE w.pc \in {"open", "dump", "replace"} -> TRUE
      [] w.pc = "rotate" -> Exists(w.bak[w.i - 1])
      [] w.pc = "rotate_primary" -> Exists(w.primary)
      [] w.pc = "except" -> w.rotate /\ ~Exists(w.primary) /\ Exists(w.bak[1])
      [] w.pc = "finally" -> Exists(w.tmp)
      [] OTHER -> FALSE

\* variant: the recovery moves bak1 to the last slot
except_step_to_last_slot(w, fail) ==
    IF w.rotate /\ ~Exists(w.primary) /\ Exists(w.bak[1]) /\ ~fail
    THEN [w EXCEPT !.bak = [w.bak EXCEPT ![BACKUP_COUNT] = w.bak[1], ![1] = Missing],
                   !.raised = TRUE, !.pc = "finally"]
    ELSE [w EXCEPT !.raised = TRUE, !.pc = "finally"]

\* except Exception: move bak1 back when the primary is gone (an OSError of the move
\* is swallowed); raise
except_step(w, fail) ==
    IF w.rotate /\ ~Exists(w.primary) /\ Exists(w.bak[1]) /\ ~fail
    THEN [w EXCEPT !.primary = w.bak[1], !.bak = [w.bak EXCEPT ![1] = Missing],
                   !.raised = TRUE, !.pc = "finally"]
    ELSE [w EXCEPT !.raised = TRUE, !.pc = "finally"]

\* variant: the finally block leaves the temp file where it is
finally_step_keeping(w, fail) == [w EXCEPT !.pc = "done"]

\* finally: if tmp_path.exists(): tmp_path.unlink(), an OSError of which is swallowed
finally_step(w, fail) ==
    IF Exists(w.tmp) /\ ~fail THEN [w EXCEPT !.tmp = Missing, !.pc = "done"]
    ELSE [w EXCEPT !.pc = "done"]

\* one step of the call; fail: the system call of this step raises OSError
write_json_atomic_step(w, fail) ==
    CASE w.pc = "open" ->
            \* open(tmp_path, "w") creates the file, empty
            IF fail THEN [w EXCEPT !.pc = "except"]
            ELSE [w EXCEPT !.tmp = Garbage, !.pc = "dump"]
      [] w.pc = "dump" ->
            \* json.dump, flush, fsync, close
            IF fail THEN [w EXCEPT !.pc = "except"]
            ELSE IF w.rotate THEN [w EXCEPT !.tmp = w.data, !.pc = "rotate", !.i = BACKUP_COUNT]
            ELSE [w EXCEPT !.tmp = w.data, !.pc = "replace"]
      [] w.pc = "rotate" ->
            \* for i in range(BACKUP_COUNT, 1, -1): if src.exists(): os.replace(src, dst)
            LET nxt == IF w.i > 2 THEN [w EXCEPT !.i = w.i - 1]
                       ELSE [w EXCEPT !.pc = "rotate_primary", !.i = 0]
            IN IF ~Exists(w.bak[w.i - 1]) THEN nxt
               ELSE IF fail THEN [w EXCEPT !.pc = "except", !.i = 0]
               ELSE [nxt EXCEPT !.bak = [w.bak EXCEPT ![w.i] = w.bak[w.i - 1],
                                                      ![w.i - 1] = Missing]]
      [] w.pc = "rotate_primary" ->
            \* if self.prompts_file.exists(): os.replace(self.prompts_file, bak1)
            IF ~Exists(w.primary) THEN [w EXCEPT !.pc = "replace"]
            ELSE IF fail THEN [w EXCEPT !.pc = "except"]
            ELSE [w EXCEPT !.bak = [w.bak EXCEPT ![1] = w.primary],
                           !.primary = Missing, !.pc = "replace"]
      [] w.pc = "replace" ->
            \* os.replace(tmp_path, path)
            IF fail THEN [w EXCEPT !.pc = "except"]
            ELSE [w EXCEPT !.primary = w.tmp, !.tmp = Missing, !.pc = "finally"]
      [] w.pc = "except" -> except_step(w, fail)
      [] w.pc = "finally" -> finally_step(w, fail)
      [] OTHER -> w

(* A fault plan says which system calls of one call raise: at most one of the steps
   of the try block (at, and i when at = "rotate"), the os.replace of the except
   block (rec), the unlink of the finally block (unlink). *)
NoFault == [at |-> "none", i |-> 0, rec |-> FALSE, unlink |-> FALSE]

FailsAt(w, f) ==
    CASE w.pc = "except" -> f.rec
      [] w.pc = "finally" -> f.unlink
      [] w.pc = "rotate" -> f.at = "rotate" /\ f.i = w.i
      [] OTHER -> f.at = w.pc

\* the whole call under fault plan f: the record at pc = "done"
RECURSIVE write_json_atomic(_, _)
write_json_atomic(w, f) ==
    IF w.pc = "done" THEN w
    ELSE write_json_atomic(write_json_atomic_step(w, FailsAt(w, f)), f)

\* the number of system calls of the whole call that fault plan f makes raise
RECURSIVE FaultsFired(_, _)
FaultsFired(w, f) ==
    IF w.pc = "done" THEN 0
    ELSE (IF Syscall(w) /\ FailsAt(w, f) THEN 1 ELSE 0)
         + FaultsFired(write_json_atomic_step(w, FailsAt(w, f)), f)

-----------------------------------------------------------------------------
(* storage.py: loading and restoring.

   A load fault plan lf says which system calls of one _load_raw raise OSError:
     read_primary  the first read of prompts.json (a file that exists but cannot
                   be read: PermissionError, IsADirectoryError, ...)
     read_backup   the slot whose read raises (0: none)
     write         the fault plan of the _write_json_atomic of the restore
     reread        the read of prompts.json after the restore *)

NoLoadFault == [read_primary |-> FALSE, read_backup |-> 0, write |-> NoFault, reread |-> FALSE]

\* the slots _restore_from_backup gets past its try block with
RestorableSlots(bak, lf) ==
    {i \in 1..BACKUP_COUNT : read_and_validate(bak[i], lf.read_backup = i).exc = "ok"}

LeastOf(S) == CHOOSE i \in S : \A j \in S : i <= j

\* the return of _restore_from_backup once its _write_json_atomic has ended as w
restore_written(w, flag) ==
    IF w.raised
    THEN [ok |-> FALSE, raised |-> TRUE, primary |-> w.primary, bak |-> w.bak, tmp |-> w.tmp,
          flag |-> flag]
    ELSE [ok |-> TRUE, raised |-> FALSE, primary |-> w.primary, bak |-> w.bak, tmp |-> w.tmp,
          flag |-> TRUE]

\* variant: the restore takes the highest-numbered slot that reads and validates
restore_from_backup_oldest(primary, bak, flag, lf) ==
    IF RestorableSlots(bak, lf) = {}
    THEN [ok |-> FALSE, raised |-> FALSE, primary |-> primary, bak |-> bak, tmp |-> Missing,
          flag |-> flag]
    ELSE restore_written(
             write_json_atomic(
                 NewWrite(primary, bak,
                          bak[CHOOSE i \in RestorableSlots(bak, lf) :
                                  \A j \in RestorableSlots(bak, lf) : j <= i],
                          FALSE),
                 lf.write),
             flag)

\* variant: the restore sets the flag even when no slot reads and validates
restore_from_backup_flagging(primary, bak, flag, lf) ==
    IF RestorableSlots(bak, lf) = {}
    THEN [ok |-> FALSE, raised |-> FALSE, primary |-> primary, bak |-> bak, tmp |-> Missing,
          flag |-> TRUE]
    ELSE restore_written(
             write_json_atomic(
                 NewWrite(primary, bak, bak[LeastOf(RestorableSlots(bak, lf))], FALSE),
                 lf.write),
             flag)

\* variant: the restore writes prompts.json with rotation of the backups
restore_from_backup_rotating(primary, bak, flag, lf) ==
    IF RestorableSlots(bak, lf) = {}
    THEN [ok |-> FALSE, raised |-> FALSE, primary |-> primary, bak |-> bak, tmp |-> Missing,
          flag |-> flag]
    ELSE restore_written(
             write_json_atomic(
                 NewWrite(primary, bak, bak[LeastOf(RestorableSlots(bak, lf))], TRUE),
                 lf.write),
             flag)

\* Storage._restore_from_backup: ok is its return value, raised says that it raised
\* instead; the first slot (newest first) that reads and validates is written to
\* prompts.json, without rotation
restore_from_backup(primary, bak, flag, lf) ==
    IF RestorableSlots(bak, lf) = {}
    THEN [ok |-> FALSE, raised |-> FALSE, primary |-> primary, bak |-> bak, tmp |-> Missing,
          flag |-> flag]
    ELSE restore_written(
             write_json_atomic(
                 NewWrite(primary, bak, bak[LeastOf(RestorableSlots(bak, lf))], FALSE),
                 lf.write),
             flag)

\* the except branch of _load_raw once _restore_from_backup has ended as r
load_restored(r, lf) ==
    LET again == read_and_validate(r.primary, lf.reread) IN
    IF r.raised
    THEN [raised |-> TRUE, data |-> JNull, primary |-> r.primary, bak |-> r.bak, tmp |-> r.tmp,
          flag |-> r.flag, restored |-> FALSE]
    ELSE IF r.ok /\ again.exc = "ok"
    THEN [raised |-> FALSE, data |-> again.data, primary |-> r.primary, bak |-> r.bak,
          tmp |-> r.tmp, flag |-> r.flag, restored |-> TRUE]
    ELSE [raised |-> FALSE, data |-> JList(<<>>), primary |-> r.primary, bak |-> r.bak,
          tmp |-> r.tmp, flag |-> r.flag, restored |-> r.ok]

\* Storage._load_raw: data is the list returned (unless raised), primary, bak and flag
\* are prompts.json, the backup slots and _restored_from_backup afterwards, tmp the temp file left behind,
\* restored says that the restore wrote prompts.json
load_raw(primary, bak, flag, lf) ==
    LET first == read_and_validate(primary, lf.read_primary) IN
    IF first.exc = "ok"
    THEN [raised |-> FALSE, data |-> first.data, primary |-> primary, bak |-> bak,
          tmp |-> Missing, flag |-> flag, restored |-> FALSE]
    ELSE IF first.exc = "OSError"
    THEN [raised |-> TRUE, data |-> JNull, primary |-> primary, bak |-> bak, tmp |-> Missing,
          flag |-> flag, restored |-> FALSE]
    ELSE load_restored(restore_from_backup(primary, bak, flag, lf), lf)

\* the number of system calls of one _load_raw that load fault plan lf makes raise
LoadFaultsFired(primary, bak, lf) ==
    LET first == read_and_validate(primary, FALSE)
        slots == RestorableSlots(bak, lf)
        restoring == first.exc # "ok" /\ ~(Exists(primary) /\ lf.read_primary)
        w0 == NewWrite(primary, bak, bak[LeastOf(slots)], FALSE)
        wrote == restoring /\ slots # {}
    IN (IF Exists(primary) /\ lf.read_primary THEN 1 ELSE 0)
       + (IF restoring /\ lf.read_backup # 0 /\ Exists(bak[lf.read_backup])
             /\ \A j \in slots : lf.read_backup < j THEN 1 ELSE 0)
       + (IF wrote THEN FaultsFired(w0, lf.write) ELSE 0)
       + (IF wrote /\ ~write_json_atomic(w0, lf.write).raised /\ lf.reread THEN 1 ELSE 0)

\* the values from_dict draws from the environment for item i at time c
EnvAt(c, i) ==
    [uuid1 |-> "uuid-" \o ToString(c) \o "-" \o ToString(i) \o "a",
     uuid2 |-> "uuid-" \o ToString(c) \o "-" \o ToString(i) \o "b",
     now1 |-> "T" \o ToString(c), now2 |-> "T" \o ToString(c)]

\* [Prompt.from_dict(item) for item in data]
from_dicts(data, c) == [i \in 1..Len(data.l) |-> from_dict(data.l[i], EnvAt(c, i))]

\* [p.to_dict() for p in prompts]
to_dicts(prompts) == JList([i \in 1..Len(prompts) |-> to_dict(prompts[i])])

\* Storage.save_prompts as one call, under fault plan f: the finished
\* _write_json_atomic call
save_prompts(primary, bak, prompts, f) ==
    write_json_atomic(NewWrite(primary, bak, to_dicts(prompts), TRUE), f)

\* variant: a change of custom_category counts as a change too
should_add_version_with_custom(existing, updated) ==
    \/ existing.name # updated.name
    \/ existing.content # updated.content
    \/ existing.category # updated.category
    \/ existing.custom_category # updated.custom_category
    \/ existing.tags # updated.tags
    \/ existing.sensitive # updated.sensitive
    \/ existing.pinned # updated.pinned

\* variant: every update counts as a change
should_add_version_always(existing, updated) == TRUE

\* Storage._should_add_version
should_add_version(existing, updated) ==
    \/ existing.name # updated.name
    \/ existing.content # updated.content
    \/ existing.category # updated.category
    \/ existing.tags # updated.tags
    \/ existing.sensitive # updated.sensitive
    \/ existing.pinned # updated.pinned

\* Storage._snapshot_prompt
snapshot_prompt(prompt) ==
    JObj([name |-> JStr(prompt.name),
          content |-> JStr(prompt.content),
          category |-> JStr(prompt.category),
          tags |-> JList(MapSeq(prompt.tags, JStr)),
          sensitive |-> JBool(prompt.sensitive),
          pinned |-> JBool(prompt.pinned),
          saved_at |-> JStr(prompt.updated_at)])

\* variant: a record with an unknown id is appended
update_prompt_upsert(prompts, prompt, now) ==
    LET hits == {i \in 1..Len(prompts) : prompts[i].id = prompt.id} IN
    IF hits = {} THEN [found |-> TRUE, prompts |-> Append(prompts, prompt)]
    ELSE LET i == LeastOf(hits)
             p == prompts[i]
             history == IF should_add_version(p, prompt)
                        THEN Take(<<snapshot_prompt(p)>> \o p.history, HISTORY_LIMIT)
                        ELSE p.history
         IN [found |-> TRUE,
             prompts |-> [prompts EXCEPT ![i] = [prompt EXCEPT !.history = history,
                                                               !.updated_at = now]]]

\* variant: the history is never truncated
update_prompt_unbounded(prompts, prompt, now) ==
    LET hits == {i \in 1..Len(prompts) : prompts[i].id = prompt.id} IN
    IF hits = {} THEN [found |-> FALSE, prompts |-> prompts]
    ELSE LET i == LeastOf(hits)
             p == prompts[i]
             history == IF should_add_version(p, prompt)
                        THEN <<snapshot_prompt(p)>> \o p.history
                        ELSE p.history
         IN [found |-> TRUE,
             prompts |-> [prompts EXCEPT ![i] = [prompt EXCEPT !.history = history,
                                                               !.updated_at = now]]]

\* variant: the history of the incoming record is kept under the new snapshot
update_prompt_keeping_incoming(prompts, prompt, now) ==
    LET hits == {i \in 1..Len(prompts) : prompts[i].id = prompt.id} IN
    IF hits = {} THEN [found |-> FALSE, prompts |-> prompts]
    ELSE LET i == LeastOf(hits)
             p == prompts[i]
             history == IF should_add_version(p, prompt)
                        THEN Take(<<snapshot_prompt(p)>> \o prompt.history, HISTORY_LIMIT)
                        ELSE p.history
         IN [found |-> TRUE,
             prompts |-> [prompts EXCEPT ![i] = [prompt EXCEPT !.history = history,
                                                               !.updated_at = now]]]

\* the loop of Storage.update_prompt over the loaded prompts: found says that a record
\* has the id of prompt, prompts is the list handed to save_prompts; now stands for
\* the datetime.now().isoformat() of Prompt.update
update_prompt(prompts, prompt, now) ==
    LET hits == {i \in 1..Len(prompts) : prompts[i].id = prompt.id} IN
    IF hits = {} THEN [found |-> FALSE, prompts |-> prompts]
    ELSE LET i == LeastOf(hits)
             p == prompts[i]
             history == IF should_add_version(p, prompt)
                        THEN Take(<<snapshot_prompt(p)>> \o p.history, HISTORY_LIMIT)
                        ELSE p.history
         IN [found |-> TRUE,
             prompts |-> [prompts EXCEPT ![i] = [prompt EXCEPT !.history = history,
                                                               !.updated_at = now]]]

\* variant: add puts the record in front
add_prompt_in_front(prompts, prompt) == <<prompt>> \o prompts

\* variant: add hands the list to save_prompts as it was loaded
add_prompt_dropping(prompts, prompt) == prompts

\* Storage.add_prompt: the list handed to save_prompts
add_prompt(prompts, prompt) == Append(prompts, prompt)

\* variant: only the first record with the id goes
delete_prompt_first_only(prompts, prompt_id) ==
    LET hits == {i \in 1..Len(prompts) : prompts[i].id = prompt_id} IN
    IF hits = {} THEN [found |-> FALSE, prompts |-> prompts]
    ELSE [found |-> TRUE,
          prompts |-> [j \in 1..(Len(prompts) - 1) |->
                          IF j < LeastOf(hits) THEN prompts[j] ELSE prompts[j + 1]]]

\* Storage.delete_prompt on the loaded prompts: found says that the list got shorter
\* (and is saved)
delete_prompt(prompts, prompt_id) ==
    LET remaining == SelectSeq(prompts, LAMBDA p : p.id # prompt_id) IN
    [found |-> Len(remaining) < Len(prompts), prompts |-> remaining]

\* delete_prompt called once per id, in sequence, each call a load and (when a record
\* went) a save: prompts.json afterwards
RECURSIVE delete_each(_, _, _)
delete_each(primary, prompt_ids, c) ==
    IF prompt_ids = <<>> THEN primary
    ELSE LET d == delete_prompt(from_dicts(primary, c), Head(prompt_ids))
         IN delete_each(IF d.found THEN to_dicts(d.prompts) ELSE primary, Tail(prompt_ids), c)

\* variant: the records go but the count returned is 0
delete_prompts_uncounted(prompts, prompt_ids) ==
    LET id_set == {prompt_ids[i] : i \in 1..Len(prompt_ids)}
        remaining == SelectSeq(prompts, LAMBDA p : p.id \notin id_set)
    IN [deleted |-> 0, prompts |-> remaining]

\* variant: only the first of the ids is deleted
delete_prompts_first_only(prompts, prompt_ids) ==
    LET remaining == SelectSeq(prompts, LAMBDA p : p.id # prompt_ids[1])
    IN [deleted |-> Len(prompts) - Len(remaining), prompts |-> remaining]

\* Storage.delete_prompts on the loaded prompts, for a non-empty list of ids: deleted
\* is the count returned, the list is saved when it is not 0
delete_prompts(prompts, prompt_ids) ==
    LET id_set == {prompt_ids[i] : i \in 1..Len(prompt_ids)}
        remaining == SelectSeq(prompts, LAMBDA p : p.id \notin id_set)
    IN [deleted |-> Len(prompts) - Len(remaining), prompts |-> remaining]

\* variant: text that does not parse is imported as an empty list
import_check_lenient(file) ==
    IF ~Exists(file) THEN [exc |-> "FileNotFoundError", msg |-> "", data |-> JNull]
    ELSE IF file.t = "garbage" THEN [exc |-> "", msg |-> "", data |-> JList(<<>>)]
    ELSE IF validate_prompt_list(file) # ""
    THEN [exc |-> "ValueError", msg |-> validate_prompt_list(file), data |-> JNull]
    ELSE [exc |-> "", msg |-> "", data |-> file]

\* Storage.import_from_file up to _validate_prompt_list: the exception raised with
\* its message, or "" and the parsed data
import_check(file) ==
    IF ~Exists(file) THEN [exc |-> "FileNotFoundError", msg |-> "", data |-> JNull]
    ELSE IF file.t = "garbage" THEN [exc |-> "ValueError", msg |-> "Invalid JSON", data |-> JNull]
    ELSE IF validate_prompt_list(file) # ""
    THEN [exc |-> "ValueError", msg |-> validate_prompt_list(file), data |-> JNull]
    ELSE [exc |-> "", msg |-> "", data |-> file]

\* variant: an imported record whose id is in the collection replaces nothing and is
\* appended all the same
import_from_file_append_all(existing, data, c) ==
    LET items == [i \in 1..Len(data.l) |-> from_dict(data.l[i], EnvAt(c, Len(existing) + i))]
    IN [imported |-> Len(items), prompts |-> existing \o items]

\* the loop of Storage.import_from_file over validated data: existing_ids is taken
\* once, before the loop; imported is the count returned, prompts the list saved
import_from_file(existing, data, c) ==
    LET existing_ids == {existing[i].id : i \in 1..Len(existing)}
        items == [i \in 1..Len(data.l) |-> from_dict(data.l[i], EnvAt(c, Len(existing) + i))]
        appended == SelectSeq(items, LAMBDA p : p.id \notin existing_ids)
    IN [imported |-> Len(appended), prompts |-> existing \o appended]

\* variant: consuming leaves the flag set
consume_restore_flag_sticky(flag) == [ret |-> flag, flag |-> flag]

\* Storage.consume_restore_flag: the value returned and the flag afterwards
consume_restore_flag(flag) == [ret |-> flag, flag |-> FALSE]

-----------------------------------------------------------------------------
(* The store as a process: the constructor, save_all, load_all,
   consume_restore_flag; the process can be killed between any two system calls of
   a save, and the files can be damaged from outside (manual edits, disk errors). *)

Prompt(id, name, content, category, tags, pinned, vgid, updated) ==
    [id |-> id, name |-> name, content |-> content, category |-> category, tags |-> tags,
     sensitive |-> FALSE, pinned |-> pinned, history |-> <<>>, custom_category |-> "",
     version_group_id |-> vgid, version_number |-> 1, previous_version_id |-> JNull,
     created_at |-> "T0", updated_at |-> updated]

PromptA == Prompt("a", "A", "alpha", "Persona", <<"x">>, TRUE, "a", "T0")
PromptB == Prompt("b", "B", "beta", "Other", <<>>, FALSE, "", "T0")

\* the collections save_all is called with
Collections == {<<PromptA>>, <<PromptA, PromptB>>}

\* what an outside modification leaves in a file: text that does not parse, or a
\* list whose item has no content
BadDocs == {Garbage, JList(<<JObj([name |-> JStr("A")])>>)}

NoCall == [op |-> "none", data |-> JNull, rotate |-> FALSE, i |-> 0, raised |-> FALSE,
           before |-> Missing, bak_before |-> <<>>]

NoOpen == [t |-> "none", primary |-> Missing, expect |-> Missing, killed |-> FALSE,
           old |-> Missing, new |-> Missing]

\* ret.found is what the first read of prompts.json met: "valid", "invalid" content,
\* a "missing" file, or an "unreadable" one (the read raised OSError)
\* ret.count is the integer returned, ret.exc the exception raised, ret.saves the
\* number of save_prompts calls of the operation, ret.ids and ret.file its arguments,
\* ret.given the version_number its record carried in memory, ret.msg the message of
\* the exception raised, ret.unlink_failed that the unlink of the temp file raised
NoRet == [op |-> "none", raised |-> FALSE, val |-> <<>>, flag |-> FALSE, arg |-> <<>>,
          faulted |-> FALSE, found |-> "none", tmp_left |-> FALSE, opened |-> NoOpen,
          count |-> 0, exc |-> "", saves |-> 0, ids |-> <<>>, file |-> Missing,
          given |-> JNull, msg |-> "", unlink_failed |-> FALSE]

StepPcs == {"open", "dump", "rotate", "rotate_primary", "replace", "except", "finally"}

\* the call in progress, from the variables
Cur == [pc |-> pc, i |-> call.i, data |-> call.data, rotate |-> call.rotate,
        raised |-> call.raised, primary |-> prompts_file, bak |-> backups, tmp |-> tmp_file]

\* a file passes _read_json and _validate_prompt_list
Valid(f) == Exists(f) /\ f.t # "garbage" /\ validate_prompt_list(f) = ""

ValidSlots(bak) == {i \in 1..BACKUP_COUNT : Valid(bak[i])}

NewestValid(bak) == IF ValidSlots(bak) = {} THEN Missing ELSE bak[LeastOf(ValidSlots(bak))]

\* the stamp of a file; lower is later: with n saves left to the run (n counted
\* after the call began) a save_all writes with stamp 2n, and a restore or the
\* constructor that follows it with stamp 2n - 1
Stamp(n) == [t |-> "stamp", n |-> n]

\* the stamps of a directory that holds prompts.json only, n saves being left
FirstBorn(n) ==
    [primary |-> Stamp(2 * n), bak |-> [i \in 1..BACKUP_COUNT |-> Missing], tmp |-> Missing]

\* Storage._save_raw entered: _write_json_atomic(prompts_file, data, rotate_backups=True)
BeginSave(op, data) ==
    /\ pc' = "open"
    /\ call' = [op |-> op, data |-> data, rotate |-> TRUE, i |-> 0, raised |-> FALSE,
                before |-> prompts_file, bak_before |-> backups]
    /\ ret' = NoRet
    /\ UNCHANGED <<prompts_file, backups, tmp_file, prior, pending_restore, past, born, procs, clock>>

\* a fresh data directory after Storage(): _ensure_data_dir has saved []
Init ==
    /\ prompts_file = JList(<<>>)
    /\ backups = [i \in 1..BACKUP_COUNT |-> Missing]
    /\ tmp_file = Missing
    /\ restored_from_backup = FALSE
    /\ pc = "idle"
    /\ call = NoCall
    /\ ret = [NoRet EXCEPT !.op = "init"]
    /\ opened = NoOpen
    /\ prior = <<Missing>>
    /\ pending_restore = FALSE
    /\ past = <<>>
    /\ procs = <<>>
    /\ clock = 0
    /\ left = [saves |-> MaxSaves, corrupt |-> MaxCorrupt]
    /\ born = FirstBorn(left.saves)

\* Storage.__init__ with _ensure_data_dir
Open ==
    /\ pc = "dead"
    /\ restored_from_backup' = FALSE
    /\ opened' = [t |-> "open", primary |-> prompts_file, expect |-> NewestValid(backups),
                  killed |-> opened.t = "killed", old |-> opened.old, new |-> opened.new]
    /\ IF Exists(prompts_file)
       THEN /\ pc' = "idle"
            /\ ret' = [NoRet EXCEPT !.op = "init"]
            /\ UNCHANGED <<prompts_file, backups, tmp_file, call, prior, pending_restore, past, born, procs, clock>>
       ELSE BeginSave("init", JList(<<>>))
    /\ UNCHANGED left

\* Storage.save_prompts entered
SaveAll(P) ==
    /\ pc = "idle"
    /\ left.saves > 0
    /\ left' = [left EXCEPT !.saves = left.saves - 1]
    /\ BeginSave("save_all", to_dicts(P))
    /\ opened' = NoOpen
    /\ UNCHANGED restored_from_backup

\* the effect of one step of the _write_json_atomic call in progress
Step(fail) ==
    \E w \in {write_json_atomic_step(Cur, fail)} :
    /\ prompts_file' = w.primary
    /\ backups' = w.bak
    /\ IF w.pc = "done"
       THEN /\ tmp_file' = Missing
            /\ pc' = IF call.op = "init" /\ w.raised THEN "dead" ELSE "idle"
            /\ call' = NoCall
            /\ ret' = [NoRet EXCEPT !.op = call.op, !.raised = w.raised, !.tmp_left = Exists(w.tmp),
                                    !.unlink_failed = (fail /\ Exists(tmp_file))]
            /\ prior' = IF w.raised THEN <<>> ELSE Take(<<call.before>> \o prior, BACKUP_COUNT)
       ELSE /\ tmp_file' = w.tmp
            /\ pc' = w.pc
            /\ call' = [call EXCEPT !.i = w.i, !.raised = w.raised]
            /\ UNCHANGED <<ret, prior>>
    /\ \E g \in {write_json_atomic_step(
                    [Cur EXCEPT !.primary = born.primary, !.bak = born.bak, !.tmp = born.tmp,
                                !.data = Stamp(IF call.op = "init" THEN 2 * left.saves - 1
                                               ELSE 2 * left.saves)],
                    fail)} :
           born' = [primary |-> g.primary, bak |-> g.bak,
                    tmp |-> IF g.pc = "done" THEN Missing ELSE g.tmp]
    /\ UNCHANGED <<restored_from_backup, pending_restore, past, procs, clock>>

StepOk ==
    /\ pc \in StepPcs
    /\ Step(FALSE)
    /\ UNCHANGED <<opened, left>>

\* the system call of this step raises OSError
StepFail ==
    /\ pc \in StepPcs
    /\ Syscall(Cur)
    /\ Step(TRUE)
    /\ UNCHANGED left
    /\ opened' = NoOpen

\* the process is killed (or exits); what it held in memory is gone, its temp file stays
Kill ==
    /\ pc # "dead"
    /\ pc' = "dead"
    /\ call' = NoCall
    /\ ret' = NoRet
    /\ restored_from_backup' = FALSE
    /\ pending_restore' = FALSE
    /\ prior' = <<>>
    /\ tmp_file' = Missing
    /\ opened' = IF call.op = "save_all"
                 THEN [NoOpen EXCEPT !.t = "killed", !.old = call.before, !.new = call.data]
                 ELSE NoOpen
    /\ born' = [born EXCEPT !.tmp = Missing]
    /\ UNCHANGED <<prompts_file, backups, past, procs, clock, left>>

\* the load fault plans tried: no failure, or one failing system call, or a failing
\* write of the temp file whose unlink fails too
LoadFaultPlans ==
    {NoLoadFault, [NoLoadFault EXCEPT !.read_primary = TRUE], [NoLoadFault EXCEPT !.reread = TRUE]}
    \cup {[NoLoadFault EXCEPT !.read_backup = i] : i \in 1..BACKUP_COUNT}
    \cup {[NoLoadFault EXCEPT !.write = [NoFault EXCEPT !.at = a]] : a \in {"open", "dump", "replace"}}
    \cup {[NoLoadFault EXCEPT !.write = [NoFault EXCEPT !.at = a, !.unlink = TRUE]] :
             a \in {"dump", "replace"}}

PlannedFaults(lf) ==
    (IF lf.read_primary THEN 1 ELSE 0) + (IF lf.read_backup # 0 THEN 1 ELSE 0)
    + (IF lf.write.at # "none" THEN 1 ELSE 0) + (IF lf.write.unlink THEN 1 ELSE 0)
    + (IF lf.reread THEN 1 ELSE 0)

\* Storage.load_prompts
LoadAll(lf) ==
    /\ pc = "idle"
    /\ LoadFaultsFired(prompts_file, backups, lf) = PlannedFaults(lf)
    /\ \E r \in {load_raw(prompts_file, backups, restored_from_backup, lf)} :
           /\ prompts_file' = r.primary
           /\ backups' = r.bak
           /\ restored_from_backup' = r.flag
           /\ pending_restore' = (pending_restore \/ r.primary # prompts_file)
           /\ prior' = IF r.primary # prompts_file THEN <<>> ELSE prior
           /\ ret' = [NoRet EXCEPT !.op = "load_all", !.raised = r.raised,
                                   !.val = IF r.raised THEN <<>> ELSE from_dicts(r.data, clock),
                                   !.faulted = PlannedFaults(lf) > 0, !.opened = opened,
                                   !.tmp_left = Exists(r.tmp),
                                   !.unlink_failed = lf.write.unlink,
                                   !.found = IF ~Exists(prompts_file) THEN "missing"
                                             ELSE IF lf.read_primary THEN "unreadable"
                                             ELSE IF Valid(prompts_file) THEN "valid"
                                             ELSE "invalid"]
           /\ opened' = NoOpen
           /\ born' = IF r.restored THEN [born EXCEPT !.primary = Stamp(2 * left.saves - 1)]
                      ELSE born
           /\ UNCHANGED <<tmp_file, pc, call, past, procs, clock, left>>

\* Storage.consume_restore_flag
ConsumeRestoreFlag ==
    LET c == consume_restore_flag(restored_from_backup) IN
    /\ pc = "idle"
    /\ ret' = [NoRet EXCEPT !.op = "consume", !.flag = c.ret]
    /\ restored_from_backup' = c.flag
    /\ pending_restore' = FALSE
    /\ opened' = NoOpen
    /\ UNCHANGED <<prompts_file, backups, tmp_file, pc, call, prior, past, born, procs, clock, left>>

\* an existing file of the directory is damaged from outside while no call is in
\* progress; slot 0 is prompts.json
Corrupt(slot, bad) ==
    /\ pc \in {"idle", "dead"}
    /\ left.corrupt > 0
    /\ left' = [left EXCEPT !.corrupt = left.corrupt - 1]
    /\ IF slot = 0
       THEN /\ Exists(prompts_file)
            /\ prompts_file' = bad
            /\ UNCHANGED backups
       ELSE /\ Exists(backups[slot])
            /\ backups' = [backups EXCEPT ![slot] = bad]
            /\ UNCHANGED prompts_file
    /\ ret' = NoRet
    /\ opened' = NoOpen
    /\ prior' = <<>>
    /\ UNCHANGED <<tmp_file, restored_from_backup, pc, call, pending_restore, past, born, procs, clock>>

Next ==
    \/ Open
    \/ \E P \in Collections : SaveAll(P)
    \/ StepOk
    \/ StepFail
    \/ Kill
    \/ \E lf \in LoadFaultPlans : LoadAll(lf)
    \/ ConsumeRestoreFlag
    \/ \E slot \in 0..BACKUP_COUNT, bad \in BadDocs : Corrupt(slot, bad)

Spec == Init /\ [][Next]_vars

-----------------------------------------------------------------------------
(* Longer runs of saves, with failing system calls and kills but no outside
   modification and no loads: what the backup slots hold after many saves. *)

InitRotation ==
    /\ prompts_file = JList(<<>>)
    /\ backups = [i \in 1..BACKUP_COUNT |-> Missing]
    /\ tmp_file = Missing
    /\ restored_from_backup = FALSE
    /\ pc = "idle"
    /\ call = NoCall
    /\ ret = [NoRet EXCEPT !.op = "init"]
    /\ opened = NoOpen
    /\ prior = <<Missing>>
    /\ pending_restore = FALSE
    /\ past = <<>>
    /\ procs = <<>>
    /\ clock = 0
    /\ left = [saves |-> MaxRotationSaves, corrupt |-> 0]
    /\ born = FirstBorn(left.saves)

NextRotation ==
    \/ Open
    \/ \E P \in Collections : SaveAll(P)
    \/ StepOk
    \/ StepFail
    \/ Kill

SpecRotation == InitRotation /\ [][NextRotation]_vars

-----------------------------------------------------------------------------
(* save_all followed by load_all, as whole calls met by no failure, over prompt
   records that differ in their versioning fields. *)

\* a history entry as _snapshot_prompt writes it
OldEntry ==
    JObj([name |-> JStr("old"), content |-> JStr("omega"), category |-> JStr("Template"),
          tags |-> JList(<<>>), sensitive |-> JBool(FALSE), pinned |-> JBool(FALSE),
          saved_at |-> JStr("T0")])

\* a record as the Prompt constructor builds it; rich fills the optional fields
Record(id, vgid, vn, pvid, rich) ==
    [id |-> id, name |-> "N" \o id, content |-> "text", category |-> "Persona",
     tags |-> IF rich THEN <<"x", "y">> ELSE <<>>,
     sensitive |-> rich, pinned |-> rich,
     history |-> IF rich THEN <<OldEntry>> ELSE <<>>,
     custom_category |-> IF rich THEN "mine" ELSE "",
     version_group_id |-> vgid, version_number |-> vn, previous_version_id |-> pvid,
     created_at |-> "T0", updated_at |-> "T1"]

Records(id, vgids, vns, pvids) ==
    {Record(id, vgid, vn, pvid, rich) :
        vgid \in vgids, vn \in vns, pvid \in pvids, rich \in BOOLEAN}

\* the lists save_all is called with: version_group_id "" is the constructor's
\* default, version_number 0 is a number below the first version
RoundTripInputs ==
    {<<>>}
    \cup {<<r>> : r \in Records("a", {"", "g"}, {0, 1, 2}, {JNull, JStr("p")})}
    \cup {<<r, q>> : r \in Records("a", {"", "g"}, {0, 1, 2}, {JNull, JStr("p")}),
                     q \in Records("b", {"", "g"}, {1}, {JNull})}

\* Storage.save_prompts as one call met by no failure
SaveAllCall(P) ==
    /\ pc = "idle"
    /\ left.saves > 0
    /\ left' = [left EXCEPT !.saves = left.saves - 1]
    /\ \E w \in {save_prompts(prompts_file, backups, P, NoFault)} :
           /\ prompts_file' = w.primary
           /\ backups' = w.bak
           /\ tmp_file' = w.tmp
           /\ ret' = [NoRet EXCEPT !.op = "save_all", !.raised = w.raised, !.arg = P]
    /\ prior' = Take(<<prompts_file>> \o prior, BACKUP_COUNT)
    /\ opened' = NoOpen
    /\ UNCHANGED <<restored_from_backup, pc, call, pending_restore, past, born, procs, clock>>

InitRoundTrip ==
    /\ prompts_file = JList(<<>>)
    /\ backups = [i \in 1..BACKUP_COUNT |-> Missing]
    /\ tmp_file = Missing
    /\ restored_from_backup = FALSE
    /\ pc = "idle"
    /\ call = NoCall
    /\ ret = [NoRet EXCEPT !.op = "init"]
    /\ opened = NoOpen
    /\ prior = <<Missing>>
    /\ pending_restore = FALSE
    /\ past = <<>>
    /\ procs = <<>>
    /\ clock = 0
    /\ left = [saves |-> MaxRoundTrips, corrupt |-> 0]
    /\ born = FirstBorn(left.saves)

NextRoundTrip ==
    \/ \E P \in RoundTripInputs : SaveAllCall(P)
    \/ LoadAll(NoLoadFault)

SpecRoundTrip == InitRoundTrip /\ [][NextRoundTrip]_vars

-----------------------------------------------------------------------------
(* Successive updates of one stored prompt, as whole calls met by no failure. *)

Contents == {"alpha", "beta"}

\* the records update is called with for the stored record p: the caller's copy of p
\* (its history not kept up) with another content, or with pinned toggled
Edits(p) ==
    {[p EXCEPT !.content = c, !.history = <<>>] : c \in Contents \ {p.content}}
    \cup {[p EXCEPT !.pinned = ~p.pinned, !.history = <<>>]}

\* Storage.update_prompt as one call met by no failure: load_prompts, the loop,
\* save_prompts; ret.flag is the boolean returned
Update(prompt) ==
    /\ pc = "idle"
    /\ left.saves > 0
    /\ left' = [left EXCEPT !.saves = left.saves - 1]
    /\ clock' = clock + 1
    /\ \E r \in {load_raw(prompts_file, backups, restored_from_backup, NoLoadFault)} :
       \E loaded \in {from_dicts(r.data, clock)} :
       \E u \in {update_prompt(loaded, prompt, "T" \o ToString(clock + 1))} :
       \E w \in {save_prompts(r.primary, r.bak, u.prompts, NoFault)} :
           /\ restored_from_backup' = r.flag
           /\ IF u.found
              THEN /\ prompts_file' = w.primary
                   /\ backups' = w.bak
                   /\ tmp_file' = w.tmp
                   /\ prior' = Take(<<r.primary>> \o prior, BACKUP_COUNT)
              ELSE /\ prompts_file' = r.primary
                   /\ backups' = r.bak
                   /\ UNCHANGED <<tmp_file, prior>>
           /\ past' = IF \E i \in 1..Len(loaded) : loaded[i].id = prompt.id
                      THEN <<loaded[LeastOf({i \in 1..Len(loaded) : loaded[i].id = prompt.id})]>>
                           \o past
                      ELSE past
           /\ ret' = [NoRet EXCEPT !.op = "update", !.flag = u.found, !.arg = <<prompt>>,
                                   !.saves = IF u.found THEN 1 ELSE 0]
           /\ pending_restore' = (pending_restore \/ r.primary # prompts_file)
           /\ opened' = NoOpen
           /\ UNCHANGED <<pc, call, born, procs>>

\* the store after add(PromptA) on a fresh directory
InitHistory ==
    /\ prompts_file = to_dicts(<<PromptA>>)
    /\ backups = [i \in 1..BACKUP_COUNT |-> IF i = 1 THEN JList(<<>>) ELSE Missing]
    /\ tmp_file = Missing
    /\ restored_from_backup = FALSE
    /\ pc = "idle"
    /\ call = NoCall
    /\ ret = [NoRet EXCEPT !.op = "add"]
    /\ opened = NoOpen
    /\ prior = <<JList(<<>>), Missing>>
    /\ pending_restore = FALSE
    /\ past = <<>>
    /\ procs = <<>>
    /\ clock = 0
    /\ left = [saves |-> MaxUpdates, corrupt |-> 0]
    /\ born = FirstBorn(left.saves)

NextHistory ==
    \E prompt \in Edits(from_dicts(prompts_file, clock)[1]) : Update(prompt)

SpecHistory == InitHistory /\ [][NextHistory]_vars

-----------------------------------------------------------------------------
(* The operations of the store as whole calls met by no failure, from an empty store:
   add, update, delete, delete_many, import_file, load_all. *)

\* the files after an operation that loaded (r is the finished _load_raw) and, when
\* saving, handed prompts to save_prompts
Stored(r, saving, prompts) ==
    /\ restored_from_backup' = r.flag
    /\ pending_restore' = (pending_restore \/ r.primary # prompts_file)
    /\ IF saving
       THEN \E w \in {save_prompts(r.primary, r.bak, prompts, NoFault)} :
                /\ prompts_file' = w.primary
                /\ backups' = w.bak
                /\ tmp_file' = w.tmp
                /\ prior' = Take(<<r.primary>> \o prior, BACKUP_COUNT)
       ELSE /\ prompts_file' = r.primary
            /\ backups' = r.bak
            /\ UNCHANGED <<tmp_file, prior>>

\* an operation begins: no call is in progress, and the run has operations left
BeginOp ==
    /\ pc = "idle"
    /\ left.saves > 0
    /\ left' = [left EXCEPT !.saves = left.saves - 1]
    /\ opened' = NoOpen
    /\ UNCHANGED <<pc, call, past, born, procs>>

\* Storage.add_prompt
Add(prompt) ==
    /\ BeginOp
    /\ \E r \in {load_raw(prompts_file, backups, restored_from_backup, NoLoadFault)} :
       \E loaded \in {from_dicts(r.data, clock)} :
           /\ prompt.id \notin {loaded[i].id : i \in 1..Len(loaded)}
           /\ Stored(r, TRUE, add_prompt(loaded, prompt))
           /\ ret' = [NoRet EXCEPT !.op = "add", !.arg = <<prompt>>, !.saves = 1]
    /\ UNCHANGED clock

\* Storage.delete_prompt; ret.flag is the boolean returned
Delete(prompt_id) ==
    /\ BeginOp
    /\ \E r \in {load_raw(prompts_file, backups, restored_from_backup, NoLoadFault)} :
       \E d \in {delete_prompt(from_dicts(r.data, clock), prompt_id)} :
           /\ Stored(r, d.found, d.prompts)
           /\ ret' = [NoRet EXCEPT !.op = "delete", !.flag = d.found, !.ids = <<prompt_id>>,
                                   !.saves = IF d.found THEN 1 ELSE 0]
    /\ UNCHANGED clock

\* Storage.delete_prompts; ret.count is the count returned
DeleteMany(prompt_ids) ==
    /\ BeginOp
    /\ IF prompt_ids = <<>>
       THEN /\ ret' = [NoRet EXCEPT !.op = "delete_many", !.ids = prompt_ids]
            /\ UNCHANGED <<prompts_file, backups, tmp_file, prior, restored_from_backup,
                           pending_restore>>
       ELSE \E r \in {load_raw(prompts_file, backups, restored_from_backup, NoLoadFault)} :
            \E d \in {delete_prompts(from_dicts(r.data, clock), prompt_ids)} :
                /\ Stored(r, d.deleted # 0, d.prompts)
                /\ ret' = [NoRet EXCEPT !.op = "delete_many", !.ids = prompt_ids,
                                        !.count = d.deleted,
                                        !.saves = IF d.deleted # 0 THEN 1 ELSE 0]
    /\ UNCHANGED clock

\* Storage.import_from_file; the ids uuid4() gives its records are not given again
ImportFile(file) ==
    /\ BeginOp
    /\ \E chk \in {import_check(file)} :
       IF chk.exc # ""
       THEN /\ ret' = [NoRet EXCEPT !.op = "import", !.file = file, !.raised = TRUE,
                                    !.exc = chk.exc, !.msg = chk.msg]
            /\ UNCHANGED <<prompts_file, backups, tmp_file, prior, restored_from_backup,
                           pending_restore, clock>>
       ELSE \E r \in {load_raw(prompts_file, backups, restored_from_backup, NoLoadFault)} :
            \E m \in {import_from_file(from_dicts(r.data, clock), chk.data, clock)} :
                /\ Stored(r, TRUE, m.prompts)
                /\ ret' = [NoRet EXCEPT !.op = "import", !.file = file, !.count = m.imported,
                                        !.saves = 1]
                /\ clock' = clock + 1

\* a record as the application builds it for add: default version fields
NewPrompt(id) == Prompt(id, "N" \o id, "alpha", "Other", <<>>, FALSE, "", "T0")

AddIds == {"a", "b"}

\* the caller's copy of the stored record p with one field changed that
\* _should_add_version does not compare
Relabels(p) ==
    {[p EXCEPT !.custom_category = "mine", !.history = <<>>],
     [p EXCEPT !.version_group_id = "g2", !.history = <<>>],
     [p EXCEPT !.version_number = p.version_number + 1, !.history = <<>>],
     [p EXCEPT !.previous_version_id = JStr("p2"), !.history = <<>>]}

\* the records update is called with: for each stored record an edit of it, an edit
\* that carries a history of its own, a relabelled copy, or the caller's copy of it
\* with no tracked field changed; or a record with an unknown id
UpdateInputs ==
    LET loaded == from_dicts(prompts_file, clock) IN
    UNION {Edits(loaded[i]) \cup Relabels(loaded[i])
           \cup {[loaded[i] EXCEPT !.history = <<>>],
                 [loaded[i] EXCEPT !.name = "renamed", !.history = <<OldEntry, OldEntry>>]} :
           i \in 1..Len(loaded)}
    \cup {NewPrompt("z")}

DeleteIds == {"a", "b", "c", "z"}

DeleteLists == {<<>>, <<"a">>, <<"a", "b">>, <<"b", "a">>, <<"a", "a">>, <<"z">>, <<"z", "c">>}

Item(id, content) ==
    JObj([id |-> JStr(id), name |-> JStr("I" \o id), content |-> JStr(content)])

\* one history entry more than update keeps
LongHistory == [i \in 1..(HISTORY_LIMIT + 1) |-> OldEntry]

\* the files import_file is called with: an id of AddIds with a new one, the same new
\* id twice, a record with no id, a record with a long history, an empty list, text
\* that does not parse, a record with no content
ImportFiles ==
    {JList(<<Item("a", "gamma"), Item("c", "gamma")>>),
     JList(<<Item("c", "gamma"), Item("c", "delta")>>),
     JList(<<JObj([name |-> JStr("anon"), content |-> JStr("gamma")])>>),
     JList(<<JObj([id |-> JStr("d"), name |-> JStr("Id"), content |-> JStr("gamma"),
                   history |-> JList(LongHistory)])>>),
     JList(<<>>)}
    \cup BadDocs

InitOps ==
    /\ prompts_file = JList(<<>>)
    /\ backups = [i \in 1..BACKUP_COUNT |-> Missing]
    /\ tmp_file = Missing
    /\ restored_from_backup = FALSE
    /\ pc = "idle"
    /\ call = NoCall
    /\ ret = [NoRet EXCEPT !.op = "init"]
    /\ opened = NoOpen
    /\ prior = <<Missing>>
    /\ pending_restore = FALSE
    /\ past = <<>>
    /\ procs = <<>>
    /\ clock = 0
    /\ left = [saves |-> MaxOps, corrupt |-> 0]
    /\ born = FirstBorn(left.saves)

NextOps ==
    \/ \E id \in AddIds : Add(NewPrompt(id))
    \/ \E prompt \in UpdateInputs : Update(prompt)
    \/ \E prompt_id \in DeleteIds : Delete(prompt_id)
    \/ \E prompt_ids \in DeleteLists : DeleteMany(prompt_ids)
    \/ \E file \in ImportFiles : ImportFile(file)
    \/ LoadAll(NoLoadFault)

SpecOps == InitOps /\ [][NextOps]_vars

-----------------------------------------------------------------------------
(* Claims *)

\* ---- version numbers: records loaded from a file and records saved from memory ----

MaxVersionSaves == 1

\* the values a version_number is given: none, booleans, integers around zero, strings
\* that are empty, numerals or neither, empty and non-empty lists, an object
VersionValues ==
    {JNull, JBool(TRUE), JBool(FALSE)}
    \cup {JInt(n) : n \in -2..2}
    \cup {JStr(t) : t \in {"", "abc", "0", "2", "-1"}}
    \cup {JList(<<>>), JList(<<JInt(2)>>), JObj([n |-> JInt(2)])}

VersionItem(v) ==
    JObj([id |-> JStr("a"), name |-> JStr("Ia"), content |-> JStr("gamma"),
          version_number |-> v])

\* save_prompts of one record whose version_number attribute is v: to_dict runs before
\* anything is written, so an exception of int() leaves the files as they were
SaveVersion(v) ==
    /\ pc = "idle"
    /\ left.saves > 0
    /\ left' = [left EXCEPT !.saves = left.saves - 1]
    /\ \E d \in {dump_version_number(v)} :
           IF d.exc # ""
           THEN /\ ret' = [NoRet EXCEPT !.op = "save_all", !.raised = TRUE, !.exc = d.exc,
                                        !.given = v]
                /\ UNCHANGED <<prompts_file, backups, tmp_file, prior>>
           ELSE \E w \in {save_prompts(prompts_file, backups,
                                       <<[NewPrompt("a") EXCEPT !.version_number = d.n]>>,
                                       NoFault)} :
                    /\ prompts_file' = w.primary
                    /\ backups' = w.bak
                    /\ tmp_file' = w.tmp
                    /\ prior' = Take(<<prompts_file>> \o prior, BACKUP_COUNT)
                    /\ ret' = [NoRet EXCEPT !.op = "save_all", !.raised = w.raised,
                                            !.given = v, !.saves = 1]
    /\ opened' = NoOpen
    /\ UNCHANGED <<restored_from_backup, pc, call, pending_restore, past, born, procs, clock>>

\* the primary file holds one record, with any version_number or none
InitVersion ==
    /\ prompts_file \in {JList(<<VersionItem(v)>>) : v \in VersionValues}
                         \cup {JList(<<Item("a", "gamma")>>)}
    /\ backups = [i \in 1..BACKUP_COUNT |-> Missing]
    /\ tmp_file = Missing
    /\ restored_from_backup = FALSE
    /\ pc = "idle"
    /\ call = NoCall
    /\ ret = [NoRet EXCEPT !.op = "init"]
    /\ opened = NoOpen
    /\ prior = <<>>
    /\ pending_restore = FALSE
    /\ past = <<>>
    /\ procs = <<>>
    /\ clock = 0
    /\ left = [saves |-> MaxVersionSaves, corrupt |-> 0]
    /\ born = FirstBorn(left.saves)

NextVersion ==
    \/ LoadAll(NoLoadFault)
    \/ \E v \in VersionValues : SaveVersion(v)

SpecVersion == InitVersion /\ [][NextVersion]_vars

\* ---- schema validation of the file given to import ----

MaxValidations == 1

\* the object o with field k set to v
With(o, k, v) == [x \in DOMAIN o \cup {k} |-> IF x = k THEN v ELSE o[x]]

\* the object o without field k
Without(o, k) == [x \in DOMAIN o \ {k} |-> o[x]]

GoodItem == Item("a", "gamma").o

\* a record with every checked field present and well formed
FullItem ==
    [id |-> JStr("b"), name |-> JStr("Ib"), content |-> JStr("delta"),
     category |-> JStr("Persona"), tags |-> JList(<<JStr("x"), JStr("y")>>),
     sensitive |-> JBool(TRUE), pinned |-> JBool(FALSE),
     history |-> JList(<<OldEntry, OldEntry>>),
     created_at |-> JStr("T0"), updated_at |-> JStr("T1")]

\* the elements of the lists given to validation: the two good records, a value that
\* is no object, and records with one field (or two) missing or of the wrong type
ValidationItems ==
    {JObj(GoodItem), JObj(FullItem), JStr("x"),
     JObj(Without(GoodItem, "name")), JObj(With(GoodItem, "name", JInt(1))),
     JObj(Without(GoodItem, "content")), JObj(With(GoodItem, "content", JNull)),
     JObj(With(GoodItem, "category", JInt(1))), JObj(With(GoodItem, "category", JStr("Misc"))),
     JObj(With(GoodItem, "tags", JStr("x"))),
     JObj(With(GoodItem, "tags", JList(<<JStr("x"), JInt(1)>>))),
     JObj(With(GoodItem, "sensitive", JInt(1))), JObj(With(GoodItem, "pinned", JNull)),
     JObj(With(GoodItem, "history", JObj(OldEntry.o))),
     JObj(With(GoodItem, "history", JList(<<OldEntry, JStr("x"), JInt(1)>>))),
     JObj(With(GoodItem, "id", JInt(1))), JObj(With(GoodItem, "created_at", JNull)),
     JObj(With(GoodItem, "updated_at", JBool(TRUE))),
     JObj(With(Without(GoodItem, "name"), "tags", JStr("x"))),
     JObj(With(With(FullItem, "pinned", JInt(0)), "id", JNull))}

\* the parsed values import is given: lists of up to two such elements, and values
\* that are no list
ValidationInputs ==
    {JList(<<>>)}
    \cup {JList(<<x>>) : x \in ValidationItems}
    \cup {JList(<<x, y>>) : x \in ValidationItems, y \in ValidationItems}
    \cup {JObj(GoodItem), JStr("x"), JNull, JInt(1)}

InitValidate ==
    /\ prompts_file = JList(<<>>)
    /\ backups = [i \in 1..BACKUP_COUNT |-> Missing]
    /\ tmp_file = Missing
    /\ restored_from_backup = FALSE
    /\ pc = "idle"
    /\ call = NoCall
    /\ ret = [NoRet EXCEPT !.op = "init"]
    /\ opened = NoOpen
    /\ prior = <<Missing>>
    /\ pending_restore = FALSE
    /\ past = <<>>
    /\ procs = <<>>
    /\ clock = 0
    /\ left = [saves |-> MaxValidations, corrupt |-> 0]
    /\ born = FirstBorn(left.saves)

NextValidate == \E file \in ValidationInputs : ImportFile(file)

SpecValidate == InitValidate /\ [][NextValidate]_vars

-----------------------------------------------------------------------------
(* Two store instances (two processes) on one data directory, each making one add or
   update call. A call is two steps, its load_prompts and its save_prompts, and the
   steps of the two calls interleave freely; nothing in storage.py locks the files.
   The files stay valid, so no load restores. *)

Instances == {1, 2}

NoProc == [pc |-> "idle", op |-> "none", arg |-> NewPrompt("none"), loaded |-> <<>>,
           loaded_at |-> 0, saved_at |-> 0, flag |-> FALSE]

\* the collection both instances start from, as load_prompts returns it
RaceStart == from_dicts(to_dicts(<<PromptA, PromptB>>), 0)

\* the call of instance p: an add of a record of its own, or an update of the stored
\* record it edits (the first record for instance 1, the second for instance 2)
RaceCalls(p) ==
    {[op |-> "add", prompt |-> NewPrompt(IF p = 1 THEN "c" ELSE "d")]}
    \cup {[op |-> "update", prompt |-> e] : e \in Edits(RaceStart[p])}

\* prompts = self.load_prompts() of add_prompt or update_prompt in instance p
RaceLoad(p, c) ==
    /\ procs[p].pc = "idle"
    /\ clock' = clock + 1
    /\ \E r \in {load_raw(prompts_file, backups, restored_from_backup, NoLoadFault)} :
           /\ prompts_file' = r.primary
           /\ backups' = r.bak
           /\ restored_from_backup' = r.flag
           /\ procs' = [procs EXCEPT ![p] = [NoProc EXCEPT !.pc = "loaded", !.op = c.op,
                                                          !.arg = c.prompt,
                                                          !.loaded = from_dicts(r.data, clock),
                                                          !.loaded_at = clock + 1]]
    /\ UNCHANGED <<tmp_file, pc, call, ret, opened, prior, pending_restore, past, born, left>>

\* the rest of the call of instance p: the change to the list it loaded, save_prompts
\* and the return
RaceSave(p) ==
    /\ procs[p].pc = "loaded"
    /\ clock' = clock + 1
    /\ \E u \in {IF procs[p].op = "add"
                 THEN [found |-> TRUE, prompts |-> add_prompt(procs[p].loaded, procs[p].arg)]
                 ELSE update_prompt(procs[p].loaded, procs[p].arg,
                                    "T" \o ToString(clock + 1))} :
           /\ IF u.found
              THEN \E w \in {save_prompts(prompts_file, backups, u.prompts, NoFault)} :
                       /\ prompts_file' = w.primary
                       /\ backups' = w.bak
                       /\ tmp_file' = w.tmp
              ELSE UNCHANGED <<prompts_file, backups, tmp_file>>
           /\ procs' = [procs EXCEPT ![p].pc = "returned", ![p].saved_at = clock + 1,
                                     ![p].flag = u.found]
           /\ ret' = [NoRet EXCEPT !.op = procs[p].op, !.flag = u.found,
                                   !.arg = <<procs[p].arg>>,
                                   !.saves = IF u.found THEN 1 ELSE 0]
    /\ UNCHANGED <<restored_from_backup, pc, call, opened, prior, pending_restore, past, born, left>>

\* the directory after add(PromptA) and add(PromptB), with no call in progress
InitRace ==
    /\ prompts_file = to_dicts(<<PromptA, PromptB>>)
    /\ backups = [i \in 1..BACKUP_COUNT |->
                     IF i = 1 THEN to_dicts(<<PromptA>>)
                     ELSE IF i = 2 THEN JList(<<>>) ELSE Missing]
    /\ tmp_file = Missing
    /\ restored_from_backup = FALSE
    /\ pc = "idle"
    /\ call = NoCall
    /\ ret = [NoRet EXCEPT !.op = "add"]
    /\ opened = NoOpen
    /\ prior = <<>>
    /\ pending_restore = FALSE
    /\ past = <<>>
    /\ procs = [p \in Instances |-> NoProc]
    /\ born = FirstBorn(0)
    /\ clock = 0
    /\ left = [saves |-> 0, corrupt |-> 0]

NextRace ==
    \/ \E p \in Instances : \E c \in RaceCalls(p) : RaceLoad(p, c)
    \/ \E p \in Instances : RaceSave(p)

SpecRace == InitRace /\ [][NextRace]_vars

-----------------------------------------------------------------------------
(* Saves that succeed or fail at any system call, and loads that restore, in one
   process with no outside modification: the order of the backup slots. Each
   save_all writes a collection of its own, numbered by the saves left. *)

MaxAgedSaves == 4

\* the collection the save_all with n saves left writes
Numbered(n) == <<[PromptA EXCEPT !.content = "v" \o ToString(n)]>>

InitAges ==
    /\ prompts_file = JList(<<>>)
    /\ backups = [i \in 1..BACKUP_COUNT |-> Missing]
    /\ tmp_file = Missing
    /\ restored_from_backup = FALSE
    /\ pc = "idle"
    /\ call = NoCall
    /\ ret = [NoRet EXCEPT !.op = "init"]
    /\ opened = NoOpen
    /\ prior = <<Missing>>
    /\ pending_restore = FALSE
    /\ past = <<>>
    /\ procs = <<>>
    /\ born = FirstBorn(MaxAgedSaves)
    /\ clock = 0
    /\ left = [saves |-> MaxAgedSaves, corrupt |-> 0]

NextAges ==
    \/ SaveAll(Numbered(left.saves))
    \/ StepOk
    \/ StepFail
    \/ \E lf \in LoadFaultPlans : LoadAll(lf)

SpecAges == InitAges /\ [][NextAges]_vars

TryPcs == {"open", "dump", "rotate", "rotate_primary", "replace"}

\* C1 (as claimed): while save_all runs on a store whose primary file exists, at every
\* point before the final rename the primary file exists and holds its pre-save
\* content, and once the rename has happened it holds the complete new content.
C1_PrimaryOldUntilRenameThenNew ==
    (call.op = "save_all" /\ Exists(call.before)) =>
        /\ pc \in TryPcs => prompts_file = call.before
        /\ (pc = "finally" /\ ~call.raised) => prompts_file = call.data

\* C2 (as claimed): when the process was killed during save_all on a valid primary
\* file and the store is opened again, the first load_all (met by no I/O error)
\* returns the complete pre-save collection or the complete new collection.
C2_ReopenAfterKillLoadsOldOrNew ==
    (ret.op = "load_all" /\ ret.opened.t = "open" /\ ret.opened.killed
        /\ Valid(ret.opened.old) /\ ~ret.faulted) =>
        /\ ~ret.raised
        /\ \/ ret.val = from_dicts(ret.opened.old, clock)
           \/ ret.val = from_dicts(ret.opened.new, clock)

\* C3 (as claimed): after BACKUP_COUNT or more consecutive successful saves, slot
\* bak_k holds exactly what the primary file held k saves ago (prior[k]), so no
\* older state is left in any slot.
C3_BackupsHoldLastFiveStates ==
    (pc = "idle" /\ Len(prior) = BACKUP_COUNT) =>
        \A k \in 1..BACKUP_COUNT : backups[k] = prior[k]

C5_OpenOnMissingPrimaryRestores ==
    (ret.op = "load_all" /\ ret.opened.t = "open" /\ ~Exists(ret.opened.primary)
        /\ Exists(ret.opened.expect) /\ ~ret.faulted) =>
        /\ ~ret.raised
        /\ ret.val = from_dicts(ret.opened.expect, clock)

\* C6: consume_restore_flag returns true exactly when a restore has written the
\* primary file since the last consume_restore_flag call (or since construction).
C6_ConsumeIsOneShot ==
    [][ret'.op = "consume" => ret'.flag = pending_restore]_vars

\* a consume_restore_flag that returned true
C6_Witness == ret.op = "consume" /\ ret.flag

C8_LoadAllNeverRaises == ret.op = "load_all" => ~ret.raised

\* C9 (as claimed): save_all(P) followed by load_all returns the records of P, equal
\* on every field, also for records with an empty version_group_id (version numbers
\* at least 1).
C9_RoundTripEqualOnEveryField ==
    [][(ret.op = "save_all" /\ ~ret.raised /\ ret'.op = "load_all"
            /\ \A i \in 1..Len(ret.arg) : ret.arg[i].version_number >= 1) =>
          (~ret'.raised /\ ret'.val = ret.arg)]_vars

\* C9 (amended): save_all(P) followed by load_all returns a list of the same length
\* and order whose records equal those of P on every field, except that an empty
\* version_group_id comes back as the record's id and a version_number below 1
\* comes back as 1.
C9_RoundTripUpToVersionDefaults ==
    [][(ret.op = "save_all" /\ ~ret.raised /\ ret'.op = "load_all") =>
          (/\ ~ret'.raised
           /\ ret'.val = [i \in 1..Len(ret.arg) |->
                             [ret.arg[i] EXCEPT
                                 !.version_group_id = IF @ = "" THEN ret.arg[i].id ELSE @,
                                 !.version_number = IF @ < 1 THEN 1 ELSE @]])]_vars

\* a load after the save of two records, the first saved with an empty
\* version_group_id (no record is saved with group id "a") and a later version
C9_Witness ==
    /\ ret.op = "load_all" /\ ~ret.raised
    /\ left.saves < MaxRoundTrips
    /\ Len(ret.val) = 2
    /\ ret.val[1].version_group_id = "a"
    /\ ret.val[1].version_number = 2
    /\ ret.val[1].previous_version_id = JStr("p")
    /\ ret.val[2].history = <<OldEntry>>

\* C10: starting from a stored prompt with empty history, after k updates that each
\* change a history-tracked field the stored history has exactly min(k, 10) entries,
\* and they are the min(k, 10) most recent prior states of the prompt, newest first.
C10_HistoryIsLastTenPriorStates ==
    LET history == prompts_file.l[1].o["history"].l
        k == Len(past)
        m == IF k < HISTORY_LIMIT THEN k ELSE HISTORY_LIMIT
    IN /\ Len(history) = m
       /\ \A j \in 1..m :
            /\ history[j].o["name"] = JStr(past[j].name)
            /\ history[j].o["content"] = JStr(past[j].content)
            /\ history[j].o["category"] = JStr(past[j].category)
            /\ history[j].o["tags"] = JList(MapSeq(past[j].tags, JStr))
            /\ history[j].o["sensitive"] = JBool(past[j].sensitive)
            /\ history[j].o["pinned"] = JBool(past[j].pinned)
            /\ history[j].o["saved_at"] = JStr(past[j].updated_at)

\* more updates than the history keeps
C10_Witness ==
    /\ ret.op = "update" /\ ret.flag
    /\ Len(past) > HISTORY_LIMIT
    /\ Len(prompts_file.l[1].o["history"].l) = HISTORY_LIMIT

\* C11: update with a record whose name, content, category, tags, sensitive and
\* pinned equal those of the stored record with the same id returns true, refreshes
\* updated_at on the stored record and leaves its history unchanged.
C11_UnchangedUpdateKeepsHistory ==
    [][(ret'.op = "update"
            /\ \E i \in 1..Len(prompts_file.l) : prompts_file.l[i].o["id"].s = ret'.arg[1].id) =>
          LET old == prompts_file.l
              inc == ret'.arg[1]
              i == LeastOf({j \in 1..Len(old) : old[j].o["id"].s = inc.id})
          IN (/\ old[i].o["name"] = JStr(inc.name)
              /\ old[i].o["content"] = JStr(inc.content)
              /\ old[i].o["category"] = JStr(inc.category)
              /\ old[i].o["tags"] = JList(MapSeq(inc.tags, JStr))
              /\ old[i].o["sensitive"] = JBool(inc.sensitive)
              /\ old[i].o["pinned"] = JBool(inc.pinned)) =>
             (/\ ret'.flag
              /\ prompts_file'.l[i].o["history"] = old[i].o["history"]
              /\ prompts_file'.l[i].o["updated_at"] = JStr("T" \o ToString(clock'))
              /\ prompts_file'.l[i].o["updated_at"] # old[i].o["updated_at"])]_vars

\* an update that changed no tracked field of a record that has a history entry
C11_Witness ==
    /\ ret.op = "update" /\ ret.flag
    /\ Len(past) = 2
    /\ Len(prompts_file.l) = 1
    /\ Len(prompts_file.l[1].o["history"].l) = 1
    /\ prompts_file.l[1].o["content"] = JStr(past[1].content)
    /\ prompts_file.l[1].o["pinned"] = JBool(past[1].pinned)
    /\ prompts_file.l[1].o["updated_at"] # JStr(past[1].updated_at)

\* C12: update with a record whose id matches no stored record returns false and
\* performs no save: the primary file and all backup slots are unchanged.
C12_UnknownIdUpdateSavesNothing ==
    [][(ret'.op = "update" /\ Valid(prompts_file)
            /\ \A i \in 1..Len(prompts_file.l) : prompts_file.l[i].o["id"].s # ret'.arg[1].id) =>
          (/\ ~ret'.flag
           /\ ret'.saves = 0
           /\ prompts_file' = prompts_file
           /\ backups' = backups
           /\ tmp_file' = tmp_file)]_vars

\* an update with an unknown id on a store that holds records
C12_Witness ==
    /\ ret.op = "update" /\ ~ret.flag
    /\ Len(prompts_file.l) > 0
    /\ \A i \in 1..Len(prompts_file.l) : prompts_file.l[i].o["id"].s # ret.arg[1].id

\* C13: import_file of a valid file appends, in the file's order, exactly the imported
\* records whose id is not in the collection as loaded, leaves every pre-existing
\* record unchanged in value and position, performs one save and returns the number
\* of records appended.
C13_ImportAppendsNewIdsOnly ==
    [][(ret'.op = "import" /\ ~ret'.raised) =>
          LET old == prompts_file.l
              new == prompts_file'.l
              old_ids == {old[i].o["id"].s : i \in 1..Len(old)}
              fresh == SelectSeq(ret'.file.l,
                                 LAMBDA it : ~Has(it.o, "id") \/ it.o["id"].s \notin old_ids)
          IN /\ Len(new) = Len(old) + Len(fresh)
             /\ \A i \in 1..Len(old) : new[i] = old[i]
             /\ \A j \in 1..Len(fresh) :
                  /\ new[Len(old) + j].o["name"] = fresh[j].o["name"]
                  /\ new[Len(old) + j].o["content"] = fresh[j].o["content"]
                  /\ Has(fresh[j].o, "id") => new[Len(old) + j].o["id"] = fresh[j].o["id"]
                  /\ Has(fresh[j].o, "history") =>
                         new[Len(old) + j].o["history"] = fresh[j].o["history"]
             /\ ret'.count = Len(fresh)
             /\ ret'.saves = 1
             /\ backups'[1] = prompts_file
             /\ \A k \in 2..BACKUP_COUNT : backups'[k] = backups[k - 1]]_vars

\* an import of two records, one with the id of a stored record: the stored record
\* is kept, the other is appended
C13_Witness ==
    /\ ret.op = "import" /\ ~ret.raised
    /\ ret.count = 1
    /\ Len(ret.file.l) = 2
    /\ ret.file.l[1].o["id"] = JStr("a")
    /\ Len(prompts_file.l) = 2
    /\ prompts_file.l[1].o["id"] = JStr("a")
    /\ prompts_file.l[1].o["content"] = JStr("alpha")
    /\ prompts_file.l[2].o["id"] = JStr("c")

\* C14: when the file given to import_file does not parse as JSON or fails schema
\* validation, import_file raises ValueError, adds no record and leaves the primary
\* file and every backup slot unchanged.
C14_InvalidImportRaisesAndSavesNothing ==
    [][(ret'.op = "import" /\ Exists(ret'.file) /\ ~Valid(ret'.file)) =>
          (/\ ret'.raised
           /\ ret'.exc = "ValueError"
           /\ ret'.saves = 0
           /\ prompts_file' = prompts_file
           /\ backups' = backups
           /\ tmp_file' = tmp_file)]_vars

\* an import of a list whose record has no content, into a store that holds records
C14_Witness ==
    /\ ret.op = "import" /\ ret.raised /\ ret.exc = "ValueError"
    /\ ret.file.t = "list"
    /\ validate_prompt_list(ret.file) = "Item 1 is missing a 'content' string."
    /\ Len(prompts_file.l) > 0
    /\ Exists(backups[1])

\* C15: delete_many(ids) leaves the same persisted collection (same records, same
\* order) as delete called once per id in sequence, and returns the number of records
\* removed.
C15_DeleteManyEqualsDeleteEach ==
    [][ret'.op = "delete_many" =>
          (/\ prompts_file' = delete_each(prompts_file, ret'.ids, clock)
           /\ ret'.count = Len(prompts_file.l) - Len(prompts_file'.l))]_vars

\* a delete_many of two ids that removed two records and kept a third
C15_Witness ==
    /\ ret.op = "delete_many"
    /\ Len(ret.ids) = 2 /\ ret.ids[1] # ret.ids[2]
    /\ ret.count = 2
    /\ Len(backups[1].l) = 3
    /\ Len(prompts_file.l) = 1

\* C16 (as claimed): each delete_many call performs exactly one save, however many of
\* the given ids match stored records.
C16_DeleteManySavesOnce ==
    [][ret'.op = "delete_many" => ret'.saves = 1]_vars

\* C16 (amended): a delete_many call performs exactly one save (one temp-file write,
\* one backup rotation, one rename) when at least one of the given ids matches a
\* stored record, however many match, and no save when none matches.
C16_DeleteManySavesOnceIfAnyMatch ==
    [][ret'.op = "delete_many" =>
          IF \E i \in 1..Len(prompts_file.l), j \in 1..Len(ret'.ids) :
                 prompts_file.l[i].o["id"].s = ret'.ids[j]
          THEN /\ ret'.saves = 1
               /\ backups'[1] = prompts_file
               /\ \A k \in 2..BACKUP_COUNT : backups'[k] = backups[k - 1]
               /\ prompts_file' # prompts_file
               /\ tmp_file' = Missing
          ELSE /\ ret'.saves = 0
               /\ prompts_file' = prompts_file
               /\ backups' = backups
               /\ tmp_file' = tmp_file]_vars

\* a delete_many whose ids matched two records, saved once
C16_Witness ==
    /\ ret.op = "delete_many"
    /\ ret.saves = 1
    /\ ret.count = 2
    /\ Len(backups[1].l) = Len(prompts_file.l) + 2
    /\ ~Exists(tmp_file)

\* C17 (as claimed): after any sequence of add, update, delete, delete_many and
\* import_file from an empty store, no two records of the persisted collection have
\* the same id.
C17_PersistedIdsAreUnique ==
    \A i, j \in 1..Len(prompts_file.l) :
        i # j => prompts_file.l[i].o["id"] # prompts_file.l[j].o["id"]

\* C18 (as claimed): after any sequence of store operations, every record of the
\* persisted collection has a history of at most 10 entries.
C18_PersistedHistoryAtMostTen ==
    \A i \in 1..Len(prompts_file.l) : Len(prompts_file.l[i].o["history"].l) <= HISTORY_LIMIT

\* C19: every record load_all returns has version_number >= 1, whatever the file
\* carried (nothing, zero, a negative, a non-number), and every record save_all has
\* written has an integer version_number >= 1, whatever the record carried in memory
C19_VersionNumberAtLeastOne ==
    /\ (ret.op = "load_all" /\ ~ret.raised) =>
           \A i \in 1..Len(ret.val) : ret.val[i].version_number >= 1
    /\ (ret.op = "save_all" /\ ~ret.raised) =>
           \A i \in 1..Len(prompts_file.l) :
               /\ Has(prompts_file.l[i].o, "version_number")
               /\ prompts_file.l[i].o.version_number.t = "int"
               /\ prompts_file.l[i].o.version_number.n >= 1

\* a file whose record has version_number -2 has been loaded, as a record with 1
C19_Witness ==
    /\ ret.op = "load_all"
    /\ ~ret.raised
    /\ prompts_file = JList(<<VersionItem(JInt(-2))>>)
    /\ Len(ret.val) = 1
    /\ ret.val[1].version_number = 1

\* C20: import accepts a parsed value exactly when it is a list whose every element
\* is an object with a string name and a string content and, for each optional field
\* present, a category among the four enum strings, tags that are a list of strings,
\* boolean sensitive and pinned, a history that is a list of objects, and string id,
\* created_at and updated_at; otherwise it raises ValueError, whose message is the
\* top-level one for a value that is no list, and else begins with the 1-based index
\* of the first offending element and names a field that offends in that element
C20_ValidationAcceptsExactlyWellFormed ==
    LET Strings == {"name", "content", "id", "created_at", "updated_at"}
        Required == {"name", "content"}
        Fields == Strings \cup {"category", "tags", "sensitive", "pinned", "history"}
        FieldOk(o, f) ==
            CASE f \in Strings -> o[f].t = "str"
              [] f = "category" ->
                     /\ o[f].t = "str"
                     /\ o[f].s \in {"Persona", "System Prompt", "Template", "Other"}
              [] f = "tags" ->
                     /\ o[f].t = "list"
                     /\ \A i \in 1..Len(o[f].l) : o[f].l[i].t = "str"
              [] f \in {"sensitive", "pinned"} -> o[f].t = "bool"
              [] f = "history" ->
                     /\ o[f].t = "list"
                     /\ \A i \in 1..Len(o[f].l) : o[f].l[i].t = "obj"
        Offending(o) ==
            {f \in Fields : IF Has(o, f) THEN ~FieldOk(o, f) ELSE f \in Required}
        ElementOk(x) == x.t = "obj" /\ Offending(x.o) = {}
        Accepts(doc) == doc.t = "list" /\ \A i \in 1..Len(doc.l) : ElementOk(doc.l[i])
        Naming(f) ==
            CASE f \in Required -> {" is missing a '" \o f \o "' string."}
              [] f \in Strings \ Required -> {" has invalid '" \o f \o "' (string expected)."}
              [] f = "category" ->
                     {" has invalid 'category'. Expected one of: Other, Persona, System Prompt, Template."}
              [] f = "tags" -> {" has invalid 'tags' list (strings only)."}
              [] f \in {"sensitive", "pinned"} ->
                     {" has invalid '" \o f \o "' (boolean expected)."}
              [] f = "history" ->
                     {" has invalid 'history' (list expected)."}
                     \cup {" has invalid 'history' entry " \o ToString(h) \o " (object expected)." :
                              h \in 1..(HISTORY_LIMIT + 1)}
        Failures(x) ==
            IF x.t # "obj" THEN {" is not an object."}
            ELSE UNION {Naming(f) : f \in Offending(x.o)}
    IN  (ret.op = "import" /\ ret.file.t \notin {"missing", "garbage"}) =>
            /\ ~ret.raised <=> Accepts(ret.file)
            /\ ret.raised => ret.exc = "ValueError"
            /\ (ret.raised /\ ret.file.t # "list") =>
                   ret.msg = "Top-level JSON must be a list of prompt objects."
            /\ (ret.raised /\ ret.file.t = "list") =>
                   \E k \in 1..Len(ret.file.l) :
                       /\ ~ElementOk(ret.file.l[k])
                       /\ \A j \in 1..(k - 1) : ElementOk(ret.file.l[j])
                       /\ ret.msg \in {ItemNo(k) \o m : m \in Failures(ret.file.l[k])}

\* a list whose first element is good and whose second has no name and tags that are
\* no list has been refused, with a message naming item 2 and its name
C20_Witness ==
    /\ ret.op = "import"
    /\ ret.file = JList(<<JObj(GoodItem), JObj(With(Without(GoodItem, "name"), "tags", JStr("x")))>>)
    /\ ret.raised
    /\ ret.msg = "Item 2 is missing a 'name' string."

\* C21 (as claimed): when a step of the save of save_all fails with an I/O error, the
\* call ends by raising, and the primary file then exists and holds exactly what it
\* held before the save.
C21_FailedSaveKeepsPrimary ==
    [][(call.op = "save_all" /\ pc = "finally" /\ pc' = "idle" /\ call.raised) =>
          (/\ ret'.raised
           /\ Exists(prompts_file')
           /\ prompts_file' = call.before)]_vars

\* C22 (as claimed): when a save ends, by returning or by raising, the temp file it
\* created no longer exists.
C22_NoTempFileAfterSave ==
    ret.op \in {"init", "save_all", "load_all"} => ~ret.tmp_left

\* C22 (amended): when a save or a restore ends, the temp file it created no longer
\* exists, unless the unlink of the finally block itself raised, which happens only
\* in a call that ends by raising; a call that returns leaves no temp file.
C22_NoTempFileUnlessUnlinkFails ==
    ret.op \in {"init", "save_all", "load_all"} =>
        /\ ret.tmp_left <=> ret.unlink_failed
        /\ ret.tmp_left => ret.raised

\* the second save_all has moved bak1 to bak2, failed to move the primary file, and
\* ended raising with its written temp file removed
C22_Witness ==
    /\ ret.op = "save_all"
    /\ ret.raised
    /\ ~ret.tmp_left
    /\ ~Exists(backups[1])
    /\ Exists(backups[2])
    /\ Valid(prompts_file)

\* C23: load_all, also when it restores the primary file from a backup and whatever
\* I/O error it meets, leaves every backup slot as it was: same existence, same
\* content.
C23_LoadAllKeepsBackups ==
    [][ret'.op = "load_all" => backups' = backups]_vars

\* a load_all has restored the primary file from bak1, which still holds that content
C23_Witness ==
    /\ ret.op = "load_all"
    /\ ret.found = "invalid"
    /\ restored_from_backup
    /\ Valid(backups[1])
    /\ prompts_file = backups[1]

\* C24: two instances on one directory race. Once both calls have returned
\* successfully, the persisted collection has the change of the call that saved last,
\* and it has the change of the other call exactly when the last saver loaded after
\* the other had saved; so an interleaving in which both load before either saves
\* loses an update.
C24_LastSaverWinsOverEarlierLoad ==
    LET Applied(p) ==
            \E i \in 1..Len(prompts_file.l) :
                /\ prompts_file.l[i].o["id"].s = procs[p].arg.id
                /\ prompts_file.l[i].o["content"].s = procs[p].arg.content
                /\ prompts_file.l[i].o["pinned"].b = procs[p].arg.pinned
    IN  (DOMAIN procs = Instances /\ \A p \in Instances : procs[p].pc = "returned") =>
            \A last, first \in Instances :
                procs[last].saved_at > procs[first].saved_at =>
                    /\ procs[last].flag /\ procs[first].flag
                    /\ Applied(last)
                    /\ Applied(first) <=> procs[last].loaded_at > procs[first].saved_at

\* both calls, an add by instance 1 and an update by instance 2, have returned
\* successfully and the record instance 1 added is not in the persisted collection
C24_Witness ==
    /\ DOMAIN procs = Instances
    /\ \A p \in Instances : procs[p].pc = "returned" /\ procs[p].flag
    /\ procs[1].op = "add" /\ procs[2].op = "update"
    /\ \A i \in 1..Len(prompts_file.l) : prompts_file.l[i].o["id"].s # procs[1].arg.id
    /\ \E i \in 1..Len(prompts_file.l) :
           /\ prompts_file.l[i].o["id"].s = procs[2].arg.id
           /\ prompts_file.l[i].o["content"].s = procs[2].arg.content
           /\ prompts_file.l[i].o["pinned"].b = procs[2].arg.pinned

\* C25: when update finds the record and a tracked field (name, content, category,
\* tags, sensitive, pinned) differs, the record stored afterwards is the incoming
\* record, stamped with the time of the update, whose history is a snapshot of the
\* stored pre-update record (its six tracked fields, saved_at = its updated_at)
\* followed by the stored record's previous history, cut to 10 entries; the history
\* the incoming record carried is discarded.
C25_UpdateStoresIncomingWithSnapshot ==
    [][(ret'.op = "update"
            /\ \E i \in 1..Len(prompts_file.l) : prompts_file.l[i].o["id"].s = ret'.arg[1].id) =>
          LET old == prompts_file.l
              inc == ret'.arg[1]
              i == LeastOf({j \in 1..Len(old) : old[j].o["id"].s = inc.id})
              snapshot == JObj([name |-> old[i].o["name"],
                                content |-> old[i].o["content"],
                                category |-> old[i].o["category"],
                                tags |-> old[i].o["tags"],
                                sensitive |-> old[i].o["sensitive"],
                                pinned |-> old[i].o["pinned"],
                                saved_at |-> old[i].o["updated_at"]])
              kept == <<snapshot>> \o old[i].o["history"].l
          IN (\/ old[i].o["name"] # JStr(inc.name)
              \/ old[i].o["content"] # JStr(inc.content)
              \/ old[i].o["category"] # JStr(inc.category)
              \/ old[i].o["tags"] # JList(MapSeq(inc.tags, JStr))
              \/ old[i].o["sensitive"] # JBool(inc.sensitive)
              \/ old[i].o["pinned"] # JBool(inc.pinned)) =>
             (/\ ret'.flag
              /\ prompts_file'.l[i] =
                     to_dict([inc EXCEPT
                                 !.history = [h \in 1..(IF Len(kept) < HISTORY_LIMIT THEN Len(kept)
                                                        ELSE HISTORY_LIMIT) |-> kept[h]],
                                 !.updated_at = "T" \o ToString(clock')]))]_vars

\* an update that renamed a record and carried two history entries of its own has
\* stored the record with one history entry, the snapshot of the record it replaced
C25_Witness ==
    /\ ret.op = "update" /\ ret.flag
    /\ ret.arg[1].history = <<OldEntry, OldEntry>>
    /\ \E i \in 1..Len(prompts_file.l) :
           /\ prompts_file.l[i].o["id"].s = ret.arg[1].id
           /\ prompts_file.l[i].o["name"].s = "renamed"
           /\ Len(prompts_file.l[i].o["history"].l) = 1
           /\ prompts_file.l[i].o["history"].l[1] # OldEntry
           /\ prompts_file.l[i].o["history"].l[1].o["content"] = prompts_file.l[i].o["content"]

C27_DeleteRemovesAllWithIdOrNothing ==
    [][ret'.op = "delete" =>
          LET old == prompts_file.l
              id == ret'.ids[1]
              hit == \E i \in 1..Len(old) : old[i].o["id"].s = id
          IN /\ ret'.flag = hit
             /\ IF hit
                THEN /\ prompts_file' = JList(SelectSeq(old, LAMBDA it : it.o["id"].s # id))
                     /\ ret'.saves = 1
                     /\ backups'[1] = prompts_file
                     /\ \A k \in 2..BACKUP_COUNT : backups'[k] = backups[k - 1]
                ELSE /\ prompts_file' = prompts_file
                     /\ backups' = backups
                     /\ ret'.saves = 0]_vars

\* a delete has removed the two records that had its id
C27_Witness ==
    /\ ret.op = "delete" /\ ret.flag
    /\ prompts_file = JList(<<>>)
    /\ Len(backups[1].l) = 2
    /\ \A i \in 1..2 : backups[1].l[i].o["id"].s = ret.ids[1]

\* C28 (as claimed): with a valid primary file and one writer, after add(p) load_all
\* returns the previous collection followed by p, and add, update, delete and
\* delete_many leave every record they do not target unchanged in value and in
\* relative order, update keeping the updated record at its position.
C28_AddAppendsOthersUntouched ==
    [][ret'.op \in {"add", "update", "delete", "delete_many"} =>
          LET old == prompts_file.l
              new == prompts_file'.l
              ids == {ret'.ids[j] : j \in 1..Len(ret'.ids)}
          IN /\ ret'.op = "add" =>
                   /\ from_dicts(prompts_file', clock') =
                          from_dicts(prompts_file, clock) \o <<ret'.arg[1]>>
                   /\ Len(new) = Len(old) + 1
                   /\ \A j \in 1..Len(old) : new[j] = old[j]
             /\ ret'.op = "update" =>
                   /\ Len(new) = Len(old)
                   /\ \A j \in 1..Len(old) :
                          \/ new[j] = old[j]
                          \/ /\ old[j].o["id"].s = ret'.arg[1].id
                             /\ new[j].o["id"].s = ret'.arg[1].id
                             /\ \A h \in 1..(j - 1) : old[h].o["id"].s # ret'.arg[1].id
             /\ ret'.op \in {"delete", "delete_many"} =>
                   new = SelectSeq(old, LAMBDA it : it.o["id"].s \notin ids)]_vars

\* C28 (amended): the same, where the last element load_all returns after add(p) is p
\* as stored: an empty version_group_id of p reads back as the id of p.
C28_AddAppendsStoredFormOthersUntouched ==
    [][ret'.op \in {"add", "update", "delete", "delete_many"} =>
          LET old == prompts_file.l
              new == prompts_file'.l
              ids == {ret'.ids[j] : j \in 1..Len(ret'.ids)}
          IN /\ ret'.op = "add" =>
                   /\ from_dicts(prompts_file', clock') =
                          from_dicts(prompts_file, clock) \o <<[ret'.arg[1] EXCEPT
                                                                 !.version_group_id =
                                                                     IF @ = "" THEN ret'.arg[1].id
                                                                     ELSE @]>>
                   /\ Len(new) = Len(old) + 1
                   /\ \A j \in 1..Len(old) : new[j] = old[j]
             /\ ret'.op = "update" =>
                   /\ Len(new) = Len(old)
                   /\ \A j \in 1..Len(old) :
                          \/ new[j] = old[j]
                          \/ /\ old[j].o["id"].s = ret'.arg[1].id
                             /\ new[j].o["id"].s = ret'.arg[1].id
                             /\ \A h \in 1..(j - 1) : old[h].o["id"].s # ret'.arg[1].id
             /\ ret'.op \in {"delete", "delete_many"} =>
                   new = SelectSeq(old, LAMBDA it : it.o["id"].s \notin ids)]_vars

\* an add to a store of one record: the record is still first, the new one is last
C28_Witness ==
    /\ ret.op = "add"
    /\ Len(prompts_file.l) = 2
    /\ backups[1] = JList(<<prompts_file.l[1]>>)
    /\ prompts_file.l[2].o["id"].s = ret.arg[1].id
    /\ ret.arg[1].version_group_id = ""
    /\ prompts_file.l[2].o["version_group_id"].s = ret.arg[1].id

\* C29: in every state reached by successful saves, failed saves and restores, each
\* backup slot that exists holds a file with a stamp, and the existing slots are
\* ordered by age: for i < j the file of bak_i was written to the primary path no
\* earlier (stamp no higher) than the file of bak_j, also when slots between them
\* are missing.
C29_BackupSlotsOrderedByAge ==
    /\ \A i \in 1..BACKUP_COUNT : Exists(backups[i]) <=> Exists(born.bak[i])
    /\ Exists(prompts_file) <=> Exists(born.primary)
    /\ \A i, j \in 1..BACKUP_COUNT :
           (i < j /\ Exists(backups[i]) /\ Exists(backups[j])) =>
               born.bak[i].n <= born.bak[j].n

\* after a save that failed part-way through its rotation and saves that succeeded,
\* bak1 and bak3 exist and bak2 is missing
C29_Witness ==
    /\ pc = "idle"
    /\ Exists(backups[1])
    /\ ~Exists(backups[2])
    /\ Exists(backups[3])
    /\ born.bak[1].n < born.bak[3].n

\* C30 (as claimed): a save_all that fails leaves every backup slot as it was before
\* the save.
C30_FailedSaveKeepsBackups ==
    [][(call.op = "save_all" /\ pc = "finally" /\ pc' = "idle" /\ call.raised) =>
          backups' = call.bak_before]_vars

====
